---- MODULE Spec2Model ----
(***************************************************************************)
(* Contract lifecycle and credit bridging of the mock billing server:      *)
(* the in-memory store, contract creation and the contract edit handler.   *)
(*                                                                         *)
(* Instants are integers.  A Date is decomposed the way the UTC getters    *)
(* decompose it: year, month (0..11), the position of the hour inside the  *)
(* month (day and hour together) and the part below the hour (minutes,     *)
(* seconds, milliseconds).  Years are counted from an epoch January.       *)
(* An RFC 3339 string is represented by the instant it parses to; the      *)
(* Date -> toISOString -> Date round trip is exact at millisecond          *)
(* precision, and every comparison of the handler is either between        *)
(* parsed Dates or between strings produced by formatRFC3339.              *)
(***************************************************************************)
EXTENDS Integers, Sequences, FiniteSets, TLC

VARIABLES
    customers,        \* ids of the customers of the store
    contracts,        \* the V2 contracts, in insertion order; a contract's id is its index
    uniquenessKeys,   \* the registered uniqueness keys
    balances,         \* <<customer, product>> -> balance (NoAmount: none)
    now,              \* the clock
    idCounter,        \* number of ids generated so far
    edits,            \* number of edits that reached the mutation steps
    applied,          \* history: per caller-supplied key, the number of requests answered
                      \* 200 or 201 (ok) and of requests that changed the contracts (changed)
    last,             \* the last request handled, when it was handled, its response and
                      \* its events
    webhookTargets,   \* the registered webhook targets, in insertion order
    deliveries,       \* one entry per POST the dispatcher started: the event, its number,
                      \* the target and how the POST ended (pending: not yet)
    inflight          \* edit requests that were submitted apart from their handling:
                      \* the request, the store at its submission, handled or not

vars ==
    <<customers, contracts, uniquenessKeys, balances, now, idCounter, edits, applied, last,
      webhookTargets, deliveries, inflight>>

(***************************************************************************)
(* Bounds of the model.                                                    *)
(***************************************************************************)
TicksPerHour == 2
HoursPerMonth == 2
MaxContracts == 2
MaxEdits == 2

TicksPerMonth == TicksPerHour * HoursPerMonth

(***************************************************************************)
(* Absent optional values.                                                 *)
(***************************************************************************)
NoTime == -1
NoId == 0
NoTier == ""

\* The empty string as a subscription id: a value that is not null, and falsy.
EmptyId == 99

\* The truthiness of a subscription id.
Truthy(id) == id \notin {NoId, EmptyId}

NoKey == 0
NoCustomer == ""
NoProduct == ""
NoAmount == -1

\* The left operand of `x || 1` is taken when x is a number other than 0;
\* an absent amount and 0 give way to the right operand.
JsTruthyNumber(x) == x \notin {NoAmount, 0}

(***************************************************************************)
(* Generic sequence helpers (Array.prototype.find / filter / some).        *)
(***************************************************************************)
FindIdx(s, P(_)) ==
    IF \E i \in 1..Len(s) : P(s[i])
    THEN CHOOSE i \in 1..Len(s) : P(s[i]) /\ \A j \in 1..(i - 1) : ~P(s[j])
    ELSE 0

Some(s, P(_)) == \E i \in 1..Len(s) : P(s[i])

Filter(s, P(_)) == SelectSeq(s, P)

Max(a, b) == IF a >= b THEN a ELSE b

Min(a, b) == IF a <= b THEN a ELSE b

(***************************************************************************)
(* Time normalizer (utils.ts).                                             *)
(***************************************************************************)
getUTCFullYear(t) == (t \div TicksPerMonth) \div 12

getUTCMonth(t) == (t \div TicksPerMonth) % 12

HourOfMonth(t) == (t % TicksPerMonth) \div TicksPerHour

BelowHour(t) == t % TicksPerHour

\* Date.UTC(year, month, day+hour, minutes..): a year from 0 to 99 stands for
\* 1900 + year, and a month outside 0..11 carries into the year.
DateUTC(y, m, h, s) ==
    LET fullYear == IF y \in 0..99 THEN 1900 + y ELSE y
    IN ((fullYear * 12 + m) * HoursPerMonth + h) * TicksPerHour + s

\* The remainder operator of the language: the sign of the dividend.
JsRem(a, b) == IF a >= 0 THEN a % b ELSE -((-a) % b)

startOfHour(t) == DateUTC(getUTCFullYear(t), getUTCMonth(t), HourOfMonth(t), 0)

startOfMonth(t) == DateUTC(getUTCFullYear(t), getUTCMonth(t), 0, 0)

addMonths(t, months) ==
    LET newMonth == getUTCMonth(t) + months
        newYear == getUTCFullYear(t) + (newMonth \div 12)
        finalMonth == (JsRem(newMonth, 12) + 12) % 12
    IN DateUTC(newYear, finalMonth, HourOfMonth(t), BelowHour(t))

normalizeRFC3339(t) == startOfHour(t)

\* The first instant of month number k (k = 12 * year + month).
MonthStart(k) == k * TicksPerMonth

(***************************************************************************)
(* Store records.                                                          *)
(***************************************************************************)
NoConfig ==
    [present |-> FALSE, is_enabled |-> FALSE, threshold_amount |-> 0,
     recharge_to_amount |-> 0, payment_gate_config |-> "", has_commit |-> FALSE,
     commit_product |-> NoProduct, mock_payment_status |-> ""]

NewContractV2(id, customer_id, starting_at, key) ==
    [id |-> id, customer_id |-> customer_id, starting_at |-> starting_at,
     uniqueness_key |-> key, subscriptions |-> <<>>, credits |-> <<>>,
     recurring_credits |-> <<>>, overrides |-> <<>>,
     prepaid_balance_threshold_configuration |-> NoConfig]

\* Mutant: a subscription that has ended still counts as active.
SubActiveIgnoresEnd(sub, n) == sub.starting_at <= n

\* Is the subscription active at the instant n?
SubActive(sub, n) ==
    /\ sub.starting_at <= n
    /\ (sub.ending_before = NoTime \/ sub.ending_before > n)

RECURSIVE Fold(_, _, _)
\* for (const x of s) acc = Op(acc, x)
Fold(Op(_, _), acc, s) ==
    IF s = <<>> THEN acc ELSE Fold(Op, Op(acc, Head(s)), Tail(s))

(***************************************************************************)
(* handleContractEdit, step by step.  The handler mutates the stored       *)
(* contract object in place; every step below maps the contract (or the    *)
(* working state built around it) to its value after the step.             *)
(***************************************************************************)

\* The working state of one edit: the contract being mutated, the
\* addedRecurringCredits list, the id generator, whether a step threw, and
\* pendingPaymentGateStatus.
Work(c, ctr) ==
    [c |-> c, added |-> <<>>, next |-> ctr, threw |-> FALSE, pending |-> ""]

\* generateId: ids are unique; generated ids are the negative integers,
\* caller-supplied ids (temporary_id, subscription_id) the positive ones.
GeneratedId(ctr) == -(ctr + 1)

\* Mutant: the floor of the instant before the period end.
UpdateSubscriptionFlooredBefore(currentEnd) == startOfHour(startOfMonth(currentEnd - 1))

\* One entry of update_subscriptions: the re-floored current period end.
UpdateSubscriptionReflooredEnd(currentEnd) == startOfHour(startOfMonth(currentEnd))

UpdateOneSubscription(subs, update, n) ==
    LET i == FindIdx(subs, LAMBDA s : s.id = update.subscription_id)
    IN IF i = 0 THEN subs
       ELSE LET sub == subs[i]
                ended == IF update.ending_before # NoTime
                         THEN [sub EXCEPT !.ending_before = update.ending_before]
                         ELSE sub
                currentEnd == ended.billing_periods.current.ending_before
                refloored ==
                    IF currentEnd # NoTime /\ currentEnd > n
                    THEN [ended EXCEPT !.billing_periods.current.ending_before =
                              UpdateSubscriptionReflooredEnd(currentEnd)]
                    ELSE ended
            IN [subs EXCEPT ![i] = refloored]

UpdateSubscriptions(c, updates, n) ==
    [c EXCEPT !.subscriptions =
        Fold(LAMBDA subs, u : UpdateOneSubscription(subs, u, n), c.subscriptions, updates)]

\* Mutant: the ending_before of the update is stored also when it has none.
UpdateOneRecurringCreditAlways(rcs, update) ==
    LET i == FindIdx(rcs, LAMBDA r : r.id = update.recurring_credit_id)
    IN IF i # 0 THEN [rcs EXCEPT ![i].ending_before = update.ending_before] ELSE rcs

\* One entry of update_recurring_credits.
UpdateOneRecurringCredit(rcs, update) ==
    LET i == FindIdx(rcs, LAMBDA r : r.id = update.recurring_credit_id)
    IN IF i # 0 /\ update.ending_before # NoTime
       THEN [rcs EXCEPT ![i].ending_before = update.ending_before]
       ELSE rcs

UpdateRecurringCredits(c, updates) ==
    [c EXCEPT !.recurring_credits =
        Fold(UpdateOneRecurringCredit, c.recurring_credits, updates)]

\* Mutant: archiving takes the credit off the contract.
ArchiveOneCreditRemoves(credits, archive, n) ==
    LET i == FindIdx(credits, LAMBDA k : k.id = archive.id)
    IN IF i # 0 THEN SubSeq(credits, 1, i - 1) \o SubSeq(credits, i + 1, Len(credits))
       ELSE credits

\* One entry of archive_credits.
ArchiveOneCredit(credits, archive, n) ==
    LET i == FindIdx(credits, LAMBDA k : k.id = archive.id)
    IN IF i # 0 THEN [credits EXCEPT ![i].archived_at = n] ELSE credits

ArchiveCredits(c, archives, n) ==
    [c EXCEPT !.credits =
        Fold(LAMBDA credits, a : ArchiveOneCredit(credits, a, n), c.credits, archives)]

\* The billing periods of an added subscription.
PeriodMonths(frequency) == IF frequency = "MONTHLY" THEN 1 ELSE 12

BillingPeriods(subStart, frequency) ==
    LET periodStartMonth == startOfMonth(subStart)
        periodStart == startOfHour(periodStartMonth)
        periodEndMonth == addMonths(periodStartMonth, PeriodMonths(frequency))
        periodEnd == startOfHour(periodEndMonth)
        nextPeriodStartMonth == periodEndMonth
        nextPeriodEndMonth == addMonths(nextPeriodStartMonth, PeriodMonths(frequency))
        nextPeriodStart == periodEnd
        nextPeriodEnd == startOfHour(nextPeriodEndMonth)
    IN [current |-> [starting_at |-> periodStart, ending_before |-> periodEnd],
        next |-> [starting_at |-> nextPeriodStart, ending_before |-> nextPeriodEnd]]

NewSubscription(subData, ctr) ==
    [id |-> IF Truthy(subData.temporary_id) THEN subData.temporary_id ELSE GeneratedId(ctr),
     starting_at |-> subData.starting_at,
     ending_before |-> NoTime,
     product_id |-> subData.product_id,
     billing_frequency |-> subData.billing_frequency,
     quantity |-> IF JsTruthyNumber(subData.initial_quantity) THEN subData.initial_quantity
                  ELSE 1,
     tier_id |-> subData.tier_id,
     billing_periods |-> BillingPeriods(subData.starting_at, subData.billing_frequency)]

\* One entry of add_subscriptions.  Reading subscription_rate.billing_frequency
\* of an entry that has no subscription_rate throws.
AddOneSubscription(w, subData) ==
    IF w.threw THEN w
    ELSE IF ~subData.has_rate THEN [w EXCEPT !.threw = TRUE]
    ELSE [w EXCEPT !.c.subscriptions = Append(@, NewSubscription(subData, w.next)),
                   !.next = IF Truthy(subData.temporary_id) THEN @ ELSE @ + 1]

AddSubscriptions(w, add_subscriptions) == Fold(AddOneSubscription, w, add_subscriptions)

(***************************************************************************)
(* Step 6: add_recurring_credits, the recurring-credit matcher and the     *)
(* credit bridging resolver.                                               *)
(***************************************************************************)

\* rcStart > now
IsFuture(rcStart, n) == rcStart > n

\* Mutant: a recurring credit without a target subscription passes the guard.
BridgingGuardIgnoresTarget(rcStart, n, targetSubId) == IsFuture(rcStart, n)

\* The guard of bridging, which isUncancelScenario repeats: the recurring
\* credit starts after now and has a target subscription.
BridgingGuard(rcStart, n, targetSubId) == IsFuture(rcStart, n) /\ Truthy(targetSubId)

\* Mutant: the subscription binding is not compared.
isActiveRecurringAnyBinding(recurring, productId, normalizedStart, subscriptionId, rcStart) ==
    /\ recurring.product_id = productId
    /\ normalizeRFC3339(recurring.starting_at) = normalizedStart
    /\ (recurring.ending_before # NoTime => startOfHour(recurring.ending_before) > rcStart)

\* isActiveRecurring; rcStart is the start of the recurring credit being
\* added, which the closure captures.
isActiveRecurring(recurring, productId, normalizedStart, subscriptionId, rcStart) ==
    /\ recurring.product_id = productId
    /\ normalizeRFC3339(recurring.starting_at) = normalizedStart
    /\ recurring.subscription_id = subscriptionId
    /\ (recurring.ending_before # NoTime => startOfHour(recurring.ending_before) > rcStart)

NewRecurringCredit(ctr, productId, normalizedStart, targetSubId) ==
    [id |-> GeneratedId(ctr), product_id |-> productId, starting_at |-> normalizedStart,
     ending_before |-> NoTime,
     subscription_id |-> IF Truthy(targetSubId) THEN targetSubId ELSE NoId]

\* Append a recurring credit to the contract and to addedRecurringCredits.
PushRecurring(w, productId, normalizedStart, targetSubId) ==
    LET recurring == NewRecurringCredit(w.next, productId, normalizedStart, targetSubId)
    IN [w EXCEPT !.c.recurring_credits = Append(@, recurring),
                 !.added = Append(@, recurring),
                 !.next = @ + 1]

\* What the resolver reads of a subscription: whether one was found, its id
\* and its tier.
NoMatch == [found |-> FALSE, id |-> NoId, tier_id |-> NoTier]

MatchOf(sub) == [found |-> TRUE, id |-> sub.id, tier_id |-> sub.tier_id]

\* An add_subscriptions entry taken as the match: it has no id property.
MatchOfEntry(subData) == [found |-> TRUE, id |-> NoId, tier_id |-> subData.tier_id]

\* activeSubsWithTier.find(sub => sub.ending_before) || activeSubsWithTier[0]
PreferredWithTier(subs, tier, n) ==
    LET activeSubsWithTier == Filter(subs, LAMBDA s : s.tier_id = tier /\ SubActive(s, n))
        i == FindIdx(activeSubsWithTier, LAMBDA s : s.ending_before # NoTime)
    IN IF activeSubsWithTier = <<>> THEN NoMatch
       ELSE IF i # 0 THEN MatchOf(activeSubsWithTier[i])
       ELSE MatchOf(activeSubsWithTier[1])

\* Lookup (a): the target subscription itself, if currently active.
MatchTarget(subs, add_subscriptions, targetSubId, n) ==
    LET i == FindIdx(subs, LAMBDA s : s.id = targetSubId /\ SubActive(s, n))
        j == FindIdx(add_subscriptions,
                     LAMBDA d : d.temporary_id = targetSubId /\ d.starting_at <= n)
    IN IF i # 0 THEN MatchOf(subs[i])
       ELSE IF j # 0 THEN MatchOfEntry(add_subscriptions[j])
       ELSE NoMatch

\* Lookup (b): an active subscription of the new subscription's tier.
MatchTier(m, subs, newSubTierId, n) ==
    IF ~m.found /\ newSubTierId # NoTier
    THEN LET p == PreferredWithTier(subs, newSubTierId, n) IN IF p.found THEN p ELSE m
    ELSE m

\* Mutant: a match that is the target itself is kept.
MatchReassignNever(m, subs, targetSubId, newSubTierId, n) == m

\* Lookup (c): the match is the target itself and a same-tier subscription
\* other than the target is preferred.
MatchReassign(m, subs, targetSubId, newSubTierId, n) ==
    IF m.found /\ m.id = targetSubId /\ newSubTierId # NoTier
    THEN LET p == PreferredWithTier(subs, newSubTierId, n)
         IN IF p.found /\ p.id # targetSubId THEN p ELSE m
    ELSE m

\* Lookup (d): an active subscription named in update_subscriptions.
MatchEnding(m, subs, endingSubIds, n) ==
    LET endingSubs == Filter(subs, LAMBDA s : s.id \in endingSubIds)
        i == FindIdx(endingSubs, LAMBDA s : SubActive(s, n))
    IN IF ~m.found /\ i # 0 THEN MatchOf(endingSubs[i]) ELSE m

\* Mutant: a subscription of the product is taken whatever was found before.
MatchProductFirst(m, subs, newSubProduct, n) ==
    LET i == FindIdx(subs, LAMBDA s : s.product_id = newSubProduct /\ SubActive(s, n))
    IN IF newSubProduct # NoProduct /\ i # 0 THEN MatchOf(subs[i]) ELSE m

\* Lookup (e): an active subscription of the new subscription's product.
MatchProduct(m, subs, newSubProduct, n) ==
    LET i == FindIdx(subs, LAMBDA s : s.product_id = newSubProduct /\ SubActive(s, n))
    IN IF ~m.found /\ newSubProduct # NoProduct /\ i # 0 THEN MatchOf(subs[i]) ELSE m

\* matchingSub, the subscription that receives the bridge credit.
MatchingSub(subs, req, targetSubId, n) ==
    LET endingSubIds == {req.update_subscriptions[i].subscription_id :
                             i \in 1..Len(req.update_subscriptions)}
        k == FindIdx(req.add_subscriptions, LAMBDA d : d.temporary_id = targetSubId)
        newSubTierId == IF k # 0 THEN req.add_subscriptions[k].tier_id ELSE NoTier
        newSubProduct == IF k # 0 THEN req.add_subscriptions[k].product_id ELSE NoProduct
        a == MatchTarget(subs, req.add_subscriptions, targetSubId, n)
        b == MatchTier(a, subs, newSubTierId, n)
        c == MatchReassign(b, subs, targetSubId, newSubTierId, n)
        d == MatchEnding(c, subs, endingSubIds, n)
    IN MatchProduct(d, subs, newSubProduct, n)

\* Mutant: a target that is itself being ended does not count.
isUncancelScenarioOtherSubOnly(rcStart, n, targetSubId, endingSubIds, matchingSubId) ==
    /\ BridgingGuard(rcStart, n, targetSubId)
    /\ matchingSubId # targetSubId

isUncancelScenario(rcStart, n, targetSubId, endingSubIds, matchingSubId) ==
    /\ BridgingGuard(rcStart, n, targetSubId)
    /\ (targetSubId \in endingSubIds \/ matchingSubId # targetSubId)

\* Mutant: the period is anchored at the hour of the clock, not at its month.
CurrentPeriodStartOfHour(contractStart, n) ==
    LET periodAnchor == IF contractStart > startOfHour(n) THEN contractStart
                        ELSE startOfHour(n)
    IN startOfHour(periodAnchor)

\* The bridged period [currentPeriodStart, currentPeriodEnd).
CurrentPeriodStart(contractStart, n) ==
    LET periodAnchor == IF contractStart > startOfMonth(n) THEN contractStart
                        ELSE startOfMonth(n)
    IN startOfHour(periodAnchor)

\* Mutant: the period ends with the hour of the recurring credit's start.
CurrentPeriodEndOfHour(rcStart) == startOfHour(rcStart)

CurrentPeriodEnd(rcStart) == startOfHour(startOfMonth(rcStart))

NextPeriodStart(periodEnd) == startOfHour(startOfMonth(periodEnd))

NextPeriodEnd(nextPeriodStart) == startOfHour(startOfMonth(addMonths(nextPeriodStart, 1)))

\* First non-undefined operand of a ?? chain of tier ids.
Coalesce3(a, b, c) == IF a # NoTier THEN a ELSE IF b # NoTier THEN b ELSE c

\* productContexts: the triggering product, the products of add_credits
\* entries that carry a schedule item, the products of the credits bound to
\* the matching subscription or carrying its tier.
PushContext(ctxs, productId, amount, typeId) ==
    IF Some(ctxs, LAMBDA x : x.productId = productId) THEN ctxs
    ELSE Append(ctxs, [productId |-> productId, creditAmount |-> amount,
                       creditTypeId |-> typeId, hasMatchingAddCredit |-> TRUE])

ExistingCreditsForMatching(credits, activeSub) ==
    Filter(credits, LAMBDA k : k.subscription_id = activeSub.id \/ k.tier_id = activeSub.tier_id)

ProductContexts(credits, req, creditData, activeSub) ==
    LET hasMatchingAddCredit ==
            Some(req.add_credits, LAMBDA k : k.product_id = creditData.product_id)
        first == <<[productId |-> creditData.product_id,
                    creditAmount |-> creditData.unit_price,
                    creditTypeId |-> creditData.credit_type_id,
                    hasMatchingAddCredit |-> hasMatchingAddCredit]>>
        relevantAddCredits == Filter(req.add_credits, LAMBDA k : k.has_items /\ k.items # <<>>)
        withAdds == Fold(LAMBDA ctxs, k : PushContext(ctxs, k.product_id, k.items[1].amount,
                                                      k.credit_type_id),
                         first, relevantAddCredits)
    IN Fold(LAMBDA ctxs, k : IF k.items = <<>> THEN ctxs
                             ELSE PushContext(ctxs, k.product_id, k.items[1].amount,
                                              k.credit_type_id),
            withAdds, ExistingCreditsForMatching(credits, activeSub))

\* A credit with one schedule item.  cf names the custom_fields object the
\* credit holds: credits made from one add_credits entry that has
\* custom_fields hold the same object, every other credit holds its own.  origin is a history
\* annotation the program does not store: the step that appended the credit
\* ("add": an add_credits entry, "next": the automatic next-period credit,
\* "bridge": the bridging upsert).
NewCredit(id, cf, productId, typeId, items, tier, subId, origin) ==
    [id |-> id, cf |-> cf, product_id |-> productId, credit_type_id |-> typeId,
     items |-> items, tier_id |-> tier, archived_at |-> NoTime, subscription_id |-> subId,
     origin |-> origin]

Item(startingAt, endingBefore, amount) ==
    [starting_at |-> startingAt, ending_before |-> endingBefore, amount |-> amount]

\* applyCurrentMetadata / applyNextMetadata on credits[i]: the tier is
\* written into the custom_fields object, the binding into the credit.
ApplyMetadata(credits, i, tier, subId) ==
    [j \in 1..Len(credits) |->
        LET k == credits[j]
        IN IF j = i
           THEN [k EXCEPT !.tier_id = IF tier # NoTier THEN tier ELSE @,
                          !.subscription_id = IF subId # NoId THEN subId ELSE @]
           ELSE IF k.cf = credits[i].cf /\ tier # NoTier
                THEN [k EXCEPT !.tier_id = tier]
                ELSE k]

\* Mutant: the archived test is inverted, so no unarchived credit is reused.
ExistingCreditIdxArchivedOnly(credits, productId, periodStart, periodEnd, subId, tier) ==
    FindIdx(credits, LAMBDA k :
        /\ k.archived_at # NoTime
        /\ k.product_id = productId
        /\ k.items # <<>>
        /\ k.items[1].starting_at = periodStart
        /\ k.items[1].ending_before = periodEnd
        /\ (k.subscription_id = subId \/ k.tier_id = tier))

\* existingCredit / existingNextCredit: the credit an upsert reuses (0: none).
ExistingCreditIdx(credits, productId, periodStart, periodEnd, subId, tier) ==
    FindIdx(credits, LAMBDA k :
        /\ k.archived_at = NoTime
        /\ k.product_id = productId
        /\ k.items # <<>>
        /\ k.items[1].starting_at = periodStart
        /\ k.items[1].ending_before = periodEnd
        /\ (k.subscription_id = subId \/ k.tier_id = tier))

\* Upsert of one bridge credit: reuse the matching credit or append one.
UpsertCredit(w, ctx, periodStart, periodEnd, matchSubId, tier, bindSubId) ==
    LET i == ExistingCreditIdx(w.c.credits, ctx.productId, periodStart, periodEnd,
                               matchSubId, tier)
        fresh == NewCredit(GeneratedId(w.next), GeneratedId(w.next), ctx.productId,
                           ctx.creditTypeId,
                           <<Item(periodStart, periodEnd, ctx.creditAmount)>>,
                           NoTier, NoId, "bridge")
        appended == Append(w.c.credits, fresh)
    IN IF i # 0
       THEN [w EXCEPT !.c.credits = ApplyMetadata(@, i, tier, bindSubId)]
       ELSE [w EXCEPT !.c.credits = ApplyMetadata(appended, Len(appended), tier, bindSubId),
                      !.next = @ + 1]

\* One product context of the bridging loop.
BridgeContext(w, ctx, rcStart, targetSubId, activeSub, currentTierId, nextTierId, currentPeriodStart, currentPeriodEnd) ==
    LET normalizedBridgingStart == startOfHour(rcStart)
        activeRecurring ==
            FindIdx(w.c.recurring_credits, LAMBDA r :
                isActiveRecurring(r, ctx.productId, normalizedBridgingStart, targetSubId, rcStart))
        w1 == IF activeRecurring = 0
              THEN PushRecurring(w, ctx.productId, normalizedBridgingStart, targetSubId)
              ELSE w
        w2 == UpsertCredit(w1, ctx, currentPeriodStart, currentPeriodEnd, activeSub.id,
                           currentTierId,
                           IF activeSub.id # NoId THEN activeSub.id ELSE targetSubId)
        nextPeriodStart == NextPeriodStart(currentPeriodEnd)
        nextPeriodEnd == NextPeriodEnd(nextPeriodStart)
    IN IF activeRecurring # 0 /\ ctx.hasMatchingAddCredit THEN w
       ELSE UpsertCredit(w2, ctx, nextPeriodStart, nextPeriodEnd, targetSubId, nextTierId,
                         targetSubId)

\* The bridging part of one add_recurring_credits entry (after the guard),
\* given the matching subscription activeSub.
BridgeFor(w, req, creditData, n, activeSub) ==
    LET rcStart == startOfHour(creditData.starting_at)
        targetSubId == creditData.subscription_id
        subs == w.c.subscriptions
        endingSubIds == {req.update_subscriptions[i].subscription_id :
                             i \in 1..Len(req.update_subscriptions)}
        ti == FindIdx(subs, LAMBDA s : s.id = targetSubId)
        k == FindIdx(req.add_subscriptions, LAMBDA d : d.temporary_id = targetSubId)
        newSubTierId == IF k # 0 THEN req.add_subscriptions[k].tier_id ELSE NoTier
        targetSubTier == IF ti # 0 THEN subs[ti].tier_id ELSE newSubTierId
        currentPeriodStart == CurrentPeriodStart(w.c.starting_at, n)
        currentPeriodEnd == CurrentPeriodEnd(rcStart)
        currentTierId == Coalesce3(activeSub.tier_id, targetSubTier, newSubTierId)
        nextTierId == Coalesce3(targetSubTier, newSubTierId, currentTierId)
    IN IF ~activeSub.found THEN w
       ELSE IF ~isUncancelScenario(rcStart, n, targetSubId, endingSubIds, activeSub.id) THEN w
       ELSE IF currentPeriodEnd <= currentPeriodStart THEN w
       ELSE Fold(LAMBDA v, ctx : BridgeContext(v, ctx, rcStart, targetSubId, activeSub,
                                               currentTierId, nextTierId,
                                               currentPeriodStart, currentPeriodEnd),
                 w, ProductContexts(w.c.credits, req, creditData, activeSub))

\* Mutant: an entry for which no subscription is found makes the edit throw.
BridgeThrowsWithoutMatch(w, req, creditData, n) ==
    LET m == MatchingSub(w.c.subscriptions, req, creditData.subscription_id, n)
    IN IF ~m.found THEN [w EXCEPT !.threw = TRUE] ELSE BridgeFor(w, req, creditData, n, m)

\* The bridging of one entry: find the matching subscription, then bridge.
Bridge(w, req, creditData, n) ==
    BridgeFor(w, req, creditData, n,
              MatchingSub(w.c.subscriptions, req, creditData.subscription_id, n))

\* One entry of add_recurring_credits.
AddOneRecurringCredit(w, req, creditData, n) ==
    LET rcStart == startOfHour(creditData.starting_at)
        normalizedRcStart == rcStart
        targetSubId == creditData.subscription_id
        existingActiveRecurring ==
            FindIdx(w.c.recurring_credits, LAMBDA r :
                isActiveRecurring(r, creditData.product_id, normalizedRcStart, targetSubId, rcStart))
        w1 == IF existingActiveRecurring = 0
              THEN PushRecurring(w, creditData.product_id, normalizedRcStart, targetSubId)
              ELSE w
    IN IF w.threw THEN w
       ELSE IF ~BridgingGuard(rcStart, n, targetSubId) THEN w1
       ELSE Bridge(w1, req, creditData, n)

AddRecurringCredits(w, req, n) ==
    Fold(LAMBDA v, d : AddOneRecurringCredit(v, req, d, n), w, req.add_recurring_credits)

(***************************************************************************)
(* Step 7: add_credits and the automatic next-period credit.               *)
(***************************************************************************)

\* Mutant: the subscription bindings are not compared.
MatchingRecurringIdxAnyBinding(allRecurringCredits, creditData, endingBefore) ==
    FindIdx(allRecurringCredits, LAMBDA rc :
        /\ rc.product_id = creditData.product_id
        /\ startOfHour(rc.starting_at) = startOfHour(endingBefore))

\* Mutant: the recurring credit starts at the very instant.
MatchingRecurringIdxSameInstant(allRecurringCredits, creditData, endingBefore) ==
    FindIdx(allRecurringCredits, LAMBDA rc :
        /\ rc.product_id = creditData.product_id
        /\ rc.starting_at = endingBefore
        /\ (\/ ~Truthy(creditData.subscription_id)
            \/ ~Truthy(rc.subscription_id)
            \/ rc.subscription_id = creditData.subscription_id))

\* matchingRecurring: index into [...addedRecurringCredits, ...recurring_credits].
MatchingRecurringIdx(allRecurringCredits, creditData, endingBefore) ==
    FindIdx(allRecurringCredits, LAMBDA rc :
        /\ rc.product_id = creditData.product_id
        /\ startOfHour(rc.starting_at) = startOfHour(endingBefore)
        /\ (\/ ~Truthy(creditData.subscription_id)
            \/ ~Truthy(rc.subscription_id)
            \/ rc.subscription_id = creditData.subscription_id))

\* The next-period credit generated after a schedule item.
NextCredit(w, req, creditData, scheduleItem, matchingRecurring) ==
    LET nextPeriodStart == startOfHour(startOfMonth(scheduleItem.ending_before))
        nextPeriodEnd == startOfHour(startOfMonth(addMonths(nextPeriodStart, 1)))
        nextSubscriptionId ==
            IF Truthy(matchingRecurring.subscription_id)
            THEN matchingRecurring.subscription_id
            ELSE creditData.subscription_id
        i == FindIdx(w.c.subscriptions, LAMBDA s : s.id = nextSubscriptionId)
        j == FindIdx(req.add_subscriptions, LAMBDA d : d.temporary_id = nextSubscriptionId)
        targetTier == IF i # 0 THEN w.c.subscriptions[i].tier_id
                      ELSE IF j # 0 THEN req.add_subscriptions[j].tier_id
                      ELSE NoTier
        nextTier == IF matchingRecurring.subscription_id # NoId /\ targetTier # NoTier
                    THEN targetTier
                    ELSE creditData.tier_id
    IN NewCredit(GeneratedId(w.next), GeneratedId(w.next), creditData.product_id,
                 creditData.credit_type_id,
                 <<Item(nextPeriodStart, nextPeriodEnd, scheduleItem.amount)>>,
                 nextTier, nextSubscriptionId, "next")

\* One schedule item of an add_credits entry.  custom_fields is
\* creditData.custom_fields || {}: an entry with a tier_id has custom_fields,
\* which its credits share; an entry without tier_id stands for one without
\* custom_fields, whose credits get an object each.
AddCreditItem(w, req, creditData, cf, scheduleItem) ==
    LET credit == NewCredit(GeneratedId(w.next),
                            IF creditData.tier_id = NoTier THEN GeneratedId(w.next) ELSE cf,
                            creditData.product_id,
                            creditData.credit_type_id, <<scheduleItem>>,
                            creditData.tier_id, creditData.subscription_id, "add")
        w1 == [w EXCEPT !.c.credits = Append(@, credit), !.next = @ + 1]
        allRecurringCredits == w.added \o w.c.recurring_credits
        m == MatchingRecurringIdx(allRecurringCredits, creditData, scheduleItem.ending_before)
    IN IF m = 0 THEN w1
       ELSE [w1 EXCEPT !.c.credits =
                           Append(@, NextCredit(w1, req, creditData, scheduleItem,
                                                allRecurringCredits[m])),
                       !.next = @ + 1]

\* Mutant: an entry makes one credit that holds the whole schedule.
AddOneCreditKeepsSchedule(w, req, creditData) ==
    IF w.threw THEN w
    ELSE [w EXCEPT !.c.credits =
                       Append(@, NewCredit(GeneratedId(w.next), GeneratedId(w.next),
                                           creditData.product_id, creditData.credit_type_id,
                                           creditData.items, creditData.tier_id,
                                           creditData.subscription_id, "add")),
                   !.next = @ + 1]

\* One entry of add_credits.
AddOneCredit(w, req, creditData) ==
    IF w.threw THEN w
    ELSE IF creditData.has_items
    THEN Fold(LAMBDA v, it : AddCreditItem(v, req, creditData, GeneratedId(w.next), it),
              w, creditData.items)
    ELSE [w EXCEPT !.c.credits =
                       Append(@, NewCredit(GeneratedId(w.next), GeneratedId(w.next),
                                           creditData.product_id, creditData.credit_type_id,
                                           <<>>, creditData.tier_id,
                                           creditData.subscription_id, "add")),
                   !.next = @ + 1]

AddCredits(w, req) == Fold(LAMBDA v, d : AddOneCredit(v, req, d), w, req.add_credits)

(***************************************************************************)
(* Step 8: add_overrides.                                                  *)
(***************************************************************************)
AddOneOverride(w, overrideData) ==
    IF w.threw THEN w
    ELSE [w EXCEPT !.c.overrides =
                       Append(@, [id |-> GeneratedId(w.next),
                                  product_id |-> overrideData.product_id,
                                  starting_at |-> overrideData.starting_at,
                                  entitled |-> overrideData.entitled]),
                   !.next = @ + 1]

AddOverrides(w, add_overrides) == Fold(AddOneOverride, w, add_overrides)

(***************************************************************************)
(* Step 9: the prepaid balance threshold configuration.                    *)
(***************************************************************************)
ConfigFields ==
    {"is_enabled", "threshold_amount", "recharge_to_amount", "payment_gate_config",
     "commit", "mock_payment_status"}

\* Mutant: an update keeps no mock payment status on the configuration and
\* resets the enable flag it does not name.
AssignConfigResets(config, update) ==
    [present |-> TRUE,
     is_enabled |-> IF "is_enabled" \in update.fields THEN update.is_enabled ELSE FALSE,
     threshold_amount |-> IF "threshold_amount" \in update.fields
                          THEN update.threshold_amount ELSE config.threshold_amount,
     recharge_to_amount |-> IF "recharge_to_amount" \in update.fields
                            THEN update.recharge_to_amount ELSE config.recharge_to_amount,
     payment_gate_config |-> IF "payment_gate_config" \in update.fields
                             THEN update.payment_gate_config ELSE config.payment_gate_config,
     has_commit |-> IF "commit" \in update.fields THEN TRUE ELSE config.has_commit,
     commit_product |-> IF "commit" \in update.fields THEN update.commit_product
                        ELSE config.commit_product,
     mock_payment_status |-> ""]

\* Object.assign(configuration, update): the supplied fields overwrite.
AssignConfig(config, update) ==
    [present |-> TRUE,
     is_enabled |-> IF "is_enabled" \in update.fields THEN update.is_enabled
                    ELSE config.is_enabled,
     threshold_amount |-> IF "threshold_amount" \in update.fields
                          THEN update.threshold_amount ELSE config.threshold_amount,
     recharge_to_amount |-> IF "recharge_to_amount" \in update.fields
                            THEN update.recharge_to_amount ELSE config.recharge_to_amount,
     payment_gate_config |-> IF "payment_gate_config" \in update.fields
                             THEN update.payment_gate_config ELSE config.payment_gate_config,
     has_commit |-> IF "commit" \in update.fields THEN TRUE ELSE config.has_commit,
     commit_product |-> IF "commit" \in update.fields THEN update.commit_product
                        ELSE config.commit_product,
     mock_payment_status |-> IF "mock_payment_status" \in update.fields
                             THEN update.mock_payment_status
                             ELSE config.mock_payment_status]

\* Mutant: every requested status counts as paid.
GateStatusAlwaysPaid(requestedStatus) == "paid"

\* requestedStatus === "failed" ? "failed" : "paid"
GateStatus(requestedStatus) == IF requestedStatus = "failed" THEN "failed" ELSE "paid"

UpdateThresholdConfiguration(w, update) ==
    LET base == IF w.c.prepaid_balance_threshold_configuration.present
                THEN w.c.prepaid_balance_threshold_configuration
                ELSE [NoConfig EXCEPT !.present = TRUE]
        assigned == AssignConfig(base, update)
        requestedStatus == IF "mock_payment_status" \in update.fields
                           THEN update.mock_payment_status ELSE ""
    IN IF w.threw \/ ~update.present THEN w
       ELSE [w EXCEPT !.c.prepaid_balance_threshold_configuration = assigned,
                      !.pending = IF requestedStatus # "" /\ assigned.has_commit
                                  THEN GateStatus(requestedStatus) ELSE @]

\* Mutant: an added configuration records a payment-gate status only when
\* it asks for one.
AddThresholdConfigurationNeedsStatus(w, add) ==
    IF w.threw \/ ~add.present THEN w
    ELSE [w EXCEPT !.c.prepaid_balance_threshold_configuration =
                       [present |-> TRUE,
                        is_enabled |-> add.is_enabled,
                        threshold_amount |-> add.threshold_amount,
                        recharge_to_amount |-> add.recharge_to_amount,
                        payment_gate_config |-> add.payment_gate_config,
                        has_commit |-> add.has_commit,
                        commit_product |-> add.commit_product,
                        mock_payment_status |-> ""],
                   !.pending = IF add.has_commit /\ add.mock_payment_status # ""
                               THEN GateStatus(add.mock_payment_status)
                               ELSE @]

AddThresholdConfiguration(w, add) ==
    IF w.threw \/ ~add.present THEN w
    ELSE [w EXCEPT !.c.prepaid_balance_threshold_configuration =
                       [present |-> TRUE,
                        is_enabled |-> add.is_enabled,
                        threshold_amount |-> add.threshold_amount,
                        recharge_to_amount |-> add.recharge_to_amount,
                        payment_gate_config |-> add.payment_gate_config,
                        has_commit |-> add.has_commit,
                        commit_product |-> add.commit_product,
                        mock_payment_status |-> ""],
                   !.pending = IF add.has_commit THEN GateStatus(add.mock_payment_status)
                               ELSE @]

(***************************************************************************)
(* Events handed to the webhook dispatcher, in the order of the calls.     *)
(***************************************************************************)
ContractEvent(c, eventType) ==
    [type |-> eventType, contract_id |-> c.id, customer_id |-> c.customer_id,
     payment_status |-> "", threshold |-> NoAmount, remaining_balance |-> NoAmount]

PaymentGateEvent(c, paymentStatus) ==
    [type |-> "payment_gate.payment_status", contract_id |-> c.id,
     customer_id |-> c.customer_id, payment_status |-> paymentStatus,
     threshold |-> NoAmount, remaining_balance |-> NoAmount]

LowBalanceAlert(customerId, contractId, threshold, remainingBalance) ==
    [type |-> "alerts.low_remaining_contract_credit_and_commit_balance_reached",
     contract_id |-> contractId, customer_id |-> customerId, payment_status |-> "",
     threshold |-> threshold, remaining_balance |-> remainingBalance]

(***************************************************************************)
(* setBalanceForProduct (balances.ts): store the balance, then scan the    *)
(* customer's contracts in store order and alert below the threshold.      *)
(***************************************************************************)
Nullish(a, d) == IF a = NoAmount THEN d ELSE a

ThresholdOf(config) == Nullish(config.threshold_amount, 0)

\* Mutant: no alert for a balance equal to the threshold.
AlertsForStrictlyBelow(cs, customerId, balance) ==
    LET mine == Filter(cs, LAMBDA c : c.customer_id = customerId)
    IN Fold(LAMBDA evs, c :
                LET config == c.prepaid_balance_threshold_configuration
                IN IF ~config.present \/ ~config.is_enabled THEN evs
                   ELSE IF ThresholdOf(config) <= 0 THEN evs
                   ELSE IF balance < ThresholdOf(config)
                        THEN Append(evs, LowBalanceAlert(customerId, c.id,
                                                         ThresholdOf(config), balance))
                        ELSE evs,
            <<>>, mine)

AlertsFor(cs, customerId, balance) ==
    LET mine == Filter(cs, LAMBDA c : c.customer_id = customerId)
    IN Fold(LAMBDA evs, c :
                LET config == c.prepaid_balance_threshold_configuration
                IN IF ~config.present \/ ~config.is_enabled THEN evs
                   ELSE IF ThresholdOf(config) <= 0 THEN evs
                   ELSE IF balance <= ThresholdOf(config)
                        THEN Append(evs, LowBalanceAlert(customerId, c.id,
                                                         ThresholdOf(config), balance))
                        ELSE evs,
            <<>>, mine)

SetBalance(bals, customerId, productId, balance) ==
    [bals EXCEPT ![<<customerId, productId>>] = balance]

(***************************************************************************)
(* Steps 10 to 12: persist, payment gate, contract.updated.                *)
(***************************************************************************)
\* Mutant: a failed payment recharges like a paid one.
TargetAmountIgnoresStatus(config, pending) ==
    Nullish(config.recharge_to_amount, Nullish(config.threshold_amount, 0))

\* Mutant: a failed payment leaves the larger of the two amounts.
TargetAmountFailedKeepsLarger(config, pending) ==
    IF pending = "failed"
    THEN Max(Nullish(config.recharge_to_amount, 0), Nullish(config.threshold_amount, 0))
    ELSE Nullish(config.recharge_to_amount, Nullish(config.threshold_amount, 0))

\* The balance a pending payment-gate status sets.
TargetAmount(config, pending) ==
    IF pending = "failed"
    THEN Min(Nullish(config.recharge_to_amount, 0), Nullish(config.threshold_amount, 0))
    ELSE Nullish(config.recharge_to_amount, Nullish(config.threshold_amount, 0))

\* Mutant: the uniqueness key is not checked.
EditRejectStatusSkipsKey(cs, keys, req) ==
    IF req.contract_id = NoId THEN 400
    ELSE IF req.customer_id = NoCustomer THEN 400
    ELSE IF req.contract_id \notin 1..Len(cs) THEN 404
    ELSE IF cs[req.contract_id].customer_id # req.customer_id THEN 404
    ELSE 0

\* Precondition checks of handleContractEdit: 0 when the edit may proceed.
EditRejectStatus(cs, keys, req) ==
    IF req.contract_id = NoId THEN 400
    ELSE IF req.customer_id = NoCustomer THEN 400
    ELSE IF req.contract_id \notin 1..Len(cs) THEN 404
    ELSE IF cs[req.contract_id].customer_id # req.customer_id THEN 404
    ELSE IF req.uniqueness_key # NoKey /\ req.uniqueness_key \in keys THEN 409
    ELSE 0

\* Steps 2 to 4 on the stored contract.
UpdateSteps(c, req, n) ==
    ArchiveCredits(
        UpdateRecurringCredits(UpdateSubscriptions(c, req.update_subscriptions, n),
                               req.update_recurring_credits),
        req.archive_credits, n)

\* Steps 5 to 7.
AddSteps(w, req, n) ==
    AddCredits(AddRecurringCredits(AddSubscriptions(w, req.add_subscriptions), req, n), req)

\* Steps 8 and 9.
ConfigSteps(w, req) ==
    AddThresholdConfiguration(
        UpdateThresholdConfiguration(AddOverrides(w, req.add_overrides),
                                     req.update_prepaid_balance_threshold_configuration),
        req.add_prepaid_balance_threshold_configuration)

\* Steps 2 to 9 on the stored contract.
EditSteps(c, ctr, req, n) ==
    ConfigSteps(AddSteps(Work(UpdateSteps(c, req, n), ctr), req, n), req)

\* Mutant: the edit does not register its key.
KeysAfterEditForgets(keys, req) == keys

\* Uniqueness keys after a successful edit.
KeysAfterEdit(keys, req) ==
    IF req.uniqueness_key # NoKey THEN keys \cup {req.uniqueness_key} ELSE keys

\* The type of each event of a sequence.
TypesOf(events) == [i \in 1..Len(events) |-> events[i].type]

\* Mutant: contract.updated is emitted before anything is persisted.
EditEffectsEmitFirst(req, setsBalance, gate) ==
    <<"contract.updated">>
    \o (IF req.uniqueness_key # NoKey THEN <<"addUniquenessKey">> ELSE <<>>)
    \o <<"updateContractV2">>
    \o (IF setsBalance THEN <<"setBalance">> ELSE <<>>)
    \o TypesOf(gate)

\* What steps 10 to 12 do to the store and hand to the dispatcher, in the
\* order of the statements; gate holds the low-balance alerts and the
\* payment-gate event.
EditEffects(req, setsBalance, gate) ==
    (IF req.uniqueness_key # NoKey THEN <<"addUniquenessKey">> ELSE <<>>)
    \o <<"updateContractV2">>
    \o (IF setsBalance THEN <<"setBalance">> ELSE <<>>)
    \o TypesOf(gate)
    \o <<"contract.updated">>

\* Mutant: the edited collections reach every contract of the customer.
updateContractV2OfCustomer(cs, id, c) ==
    [i \in 1..Len(cs) |->
        IF cs[i].customer_id = c.customer_id THEN [c EXCEPT !.id = cs[i].id] ELSE cs[i]]

\* The contract the edit worked on is the stored object of that id: its
\* mutations are in the store, those of no other contract are.
updateContractV2(cs, id, c) == [cs EXCEPT ![id] = c]

\* Mutant: an edit that throws leaves the contract as it found it.
FinishEditRollsBack(cs, keys, bals, req, w) ==
    LET cs1 == updateContractV2(cs, req.contract_id, w.c)
        config == w.c.prepaid_balance_threshold_configuration
        productId == IF config.has_commit THEN config.commit_product ELSE NoProduct
        sets == w.pending # "" /\ productId # NoProduct
        amount == TargetAmount(config, w.pending)
        gate == IF w.pending = "" THEN <<>>
                ELSE (IF sets THEN AlertsFor(cs1, w.c.customer_id, amount) ELSE <<>>)
                     \o <<PaymentGateEvent(w.c, w.pending)>>
    IN IF w.threw
       THEN [status |-> 500, contracts |-> cs, keys |-> keys, balances |-> bals,
             ctr |-> w.next, events |-> <<>>, effects |-> <<>>]
       ELSE [status |-> 200, contracts |-> cs1, keys |-> KeysAfterEdit(keys, req),
             balances |-> IF sets THEN SetBalance(bals, w.c.customer_id, productId, amount)
                          ELSE bals,
             ctr |-> w.next,
             events |-> gate \o <<ContractEvent(w.c, "contract.updated")>>,
             effects |-> EditEffects(req, sets, gate)]

\* Steps 10 to 12 on the working state w the mutation steps left: the
\* response status, the store after the request and the events.
FinishEdit(cs, keys, bals, req, w) ==
    LET cs1 == updateContractV2(cs, req.contract_id, w.c)
        config == w.c.prepaid_balance_threshold_configuration
        productId == IF config.has_commit THEN config.commit_product ELSE NoProduct
        sets == w.pending # "" /\ productId # NoProduct
        amount == TargetAmount(config, w.pending)
        gate == IF w.pending = "" THEN <<>>
                ELSE (IF sets THEN AlertsFor(cs1, w.c.customer_id, amount) ELSE <<>>)
                     \o <<PaymentGateEvent(w.c, w.pending)>>
    IN IF w.threw
       THEN [status |-> 500, contracts |-> cs1, keys |-> keys, balances |-> bals,
             ctr |-> w.next, events |-> <<>>, effects |-> <<>>]
       ELSE [status |-> 200, contracts |-> cs1, keys |-> KeysAfterEdit(keys, req),
             balances |-> IF sets THEN SetBalance(bals, w.c.customer_id, productId, amount)
                          ELSE bals,
             ctr |-> w.next,
             events |-> gate \o <<ContractEvent(w.c, "contract.updated")>>,
             effects |-> EditEffects(req, sets, gate)]

\* The whole handler: response status, store after the request, events.
EditResult(cs, keys, bals, ctr, req, n) ==
    IF EditRejectStatus(cs, keys, req) # 0
    THEN [status |-> EditRejectStatus(cs, keys, req), contracts |-> cs, keys |-> keys,
          balances |-> bals, ctr |-> ctr, events |-> <<>>, effects |-> <<>>]
    ELSE FinishEdit(cs, keys, bals, req, EditSteps(cs[req.contract_id], ctr, req, n))

(***************************************************************************)
(* handleCreateContract.                                                   *)
(***************************************************************************)
CreateRejectStatus(custs, keys, req) ==
    IF ~req.has_required THEN 400
    ELSE IF req.customer_id \notin custs THEN 404
    ELSE IF req.uniqueness_key # NoKey /\ req.uniqueness_key \in keys THEN 409
    ELSE 0

CreateResult(custs, cs, keys, ctr, req) ==
    LET rejected == CreateRejectStatus(custs, keys, req)
        generatesKey == req.uniqueness_key = NoKey
        key == IF generatesKey THEN GeneratedId(ctr) ELSE req.uniqueness_key
        contractV2 == NewContractV2(Len(cs) + 1, req.customer_id, req.starting_at, key)
    IN IF rejected # 0
       THEN [status |-> rejected, contracts |-> cs, keys |-> keys, ctr |-> ctr,
             events |-> <<>>, effects |-> <<>>]
       ELSE [status |-> 201, contracts |-> Append(cs, contractV2),
             keys |-> keys \cup {key},
             ctr |-> IF generatesKey THEN ctr + 1 ELSE ctr,
             events |-> <<ContractEvent(contractV2, "contract.created")>>,
             effects |-> <<"createContractV2", "contract.created">>]

(***************************************************************************)
(* Requests.                                                               *)
(***************************************************************************)
CustomerOrder == <<"cus_1", "cus_2">>

CustomerIds == {CustomerOrder[i] : i \in 1..Len(CustomerOrder)}

Products == {"p1", "p2"}

UserKeys == {1, 2}

NoUpdateConfig ==
    [present |-> FALSE, fields |-> {}, is_enabled |-> FALSE, threshold_amount |-> NoAmount,
     recharge_to_amount |-> NoAmount, payment_gate_config |-> "", commit_product |-> NoProduct,
     mock_payment_status |-> ""]

NoAddConfig ==
    [present |-> FALSE, is_enabled |-> FALSE, threshold_amount |-> NoAmount,
     recharge_to_amount |-> NoAmount, payment_gate_config |-> "", has_commit |-> FALSE,
     commit_product |-> NoProduct, mock_payment_status |-> ""]

\* An edit request with every list empty.
EmptyEdit(contractId, customerId, key) ==
    [contract_id |-> contractId, customer_id |-> customerId, uniqueness_key |-> key,
     update_subscriptions |-> <<>>, update_recurring_credits |-> <<>>,
     archive_credits |-> <<>>, add_subscriptions |-> <<>>,
     add_recurring_credits |-> <<>>, add_credits |-> <<>>, add_overrides |-> <<>>,
     update_prepaid_balance_threshold_configuration |-> NoUpdateConfig,
     add_prepaid_balance_threshold_configuration |-> NoAddConfig]

SubData(temporaryId, startingAt, productId, frequency, tier) ==
    [temporary_id |-> temporaryId, starting_at |-> startingAt, has_rate |-> TRUE,
     product_id |-> productId, billing_frequency |-> frequency,
     initial_quantity |-> NoAmount,
     tier_id |-> tier]

RecurringData(productId, startingAt, subscriptionId) ==
    [product_id |-> productId, starting_at |-> startingAt, subscription_id |-> subscriptionId,
     unit_price |-> 0, credit_type_id |-> ""]

CreditData(productId, items, subscriptionId, tier) ==
    [product_id |-> productId, credit_type_id |-> "usd", has_items |-> TRUE, items |-> items,
     subscription_id |-> subscriptionId, tier_id |-> tier]

AddConfig(enabled, threshold, recharge, commitProduct, status) ==
    [present |-> TRUE, is_enabled |-> enabled, threshold_amount |-> threshold,
     recharge_to_amount |-> recharge, payment_gate_config |-> "stripe",
     has_commit |-> commitProduct # NoProduct, commit_product |-> commitProduct,
     mock_payment_status |-> status]

(***************************************************************************)
(* The actions: one per request handler, and the clock.                    *)
(***************************************************************************)
\* The month of the first clock value: November 2024 (12 * 2024 + 10).
FirstMonth == 24298

T0 == MonthStart(FirstMonth)

NoneApplied == [k \in UserKeys |-> [ok |-> 0, changed |-> 0]]

EmptyBalances == [k \in CustomerIds \X Products |-> NoAmount]

NoRequest == [op |-> "none", status |-> 0, events |-> <<>>, effects |-> <<>>]

Init ==
    /\ customers = {}
    /\ contracts = <<>>
    /\ uniquenessKeys = {}
    /\ balances = EmptyBalances
    /\ now = T0 + 1
    /\ idCounter = 0
    /\ edits = 0
    /\ applied = NoneApplied
    /\ last = NoRequest
    /\ webhookTargets = <<>>
    /\ deliveries = <<>>
    /\ inflight = <<>>

\* The number the dispatcher's next event gets: events are numbered in the
\* order of their dispatch (each has an id of its own).
NextEventNo(dl) == IF dl = <<>> THEN 1 ELSE dl[Len(dl)].event_no + 1

\* dispatchEvent on one event: nothing without targets, else one POST per
\* registered target, started in the order of the set.
DispatchEvent(dl, targets, event) ==
    dl \o [i \in 1..Len(targets) |->
              [event |-> event, event_no |-> NextEventNo(dl), target |-> targets[i],
               state |-> "pending"]]

\* The deliveries after the events of one handler were dispatched in turn.
RECURSIVE Dispatch(_, _, _)
Dispatch(dl, targets, events) ==
    IF events = <<>> THEN dl
    ELSE Dispatch(DispatchEvent(dl, targets, Head(events)), targets, Tail(events))

\* The history of keys after a request with this key and status; changed
\* tells whether the request changed the contracts.
Applied(app, key, status, changed) ==
    IF key \in UserKeys
    THEN [app EXCEPT ![key].ok = IF status \in {200, 201} THEN @ + 1 ELSE @,
                     ![key].changed = IF changed THEN @ + 1 ELSE @]
    ELSE app

\* POST /v1/customers: a customer with a fresh id.
CreateCustomer ==
    /\ Cardinality(customers) < Len(CustomerOrder)
    /\ customers' = customers \cup {CustomerOrder[Cardinality(customers) + 1]}
    /\ last' = [op |-> "customer", status |-> 201, events |-> <<>>, effects |-> <<>>]
    /\ UNCHANGED <<contracts, uniquenessKeys, balances, now, idCounter, edits, applied,
                   webhookTargets, deliveries, inflight>>

\* handleCreateContract on the request req.
HandleCreateContract(req) ==
    \E r \in {CreateResult(customers, contracts, uniquenessKeys, idCounter, req)} :
       /\ Len(contracts) < MaxContracts
       /\ contracts' = r.contracts
       /\ uniquenessKeys' = r.keys
       /\ idCounter' = r.ctr
       /\ applied' = Applied(applied, req.uniqueness_key, r.status, r.contracts # contracts)
       /\ last' = [op |-> "create", status |-> r.status, events |-> r.events,
                   effects |-> r.effects, req |-> req, at |-> now]
       /\ deliveries' = Dispatch(deliveries, webhookTargets, r.events)
       /\ UNCHANGED <<customers, balances, now, edits, webhookTargets, inflight>>

\* Mutant: the handler works on the contracts as they were when the request
\* was submitted.
ContractsReadAtSubmission(stored, seen) == seen

\* The contracts a handler works on: the stored objects themselves, looked up
\* when the handler runs; seen is what the store held when the request was
\* submitted.
ContractsRead(stored, seen) == stored

\* One run of handleContractEdit on the request req, from its first statement
\* to its response; counted edits advance the counter that bounds the
\* behaviours.
RunContractEdit(req, counted, seen) ==
    \E r \in {EditResult(ContractsRead(contracts, seen), uniquenessKeys, balances, idCounter,
                          req, now)} :
       /\ contracts' = r.contracts
       /\ uniquenessKeys' = r.keys
       /\ balances' = r.balances
       /\ idCounter' = r.ctr
       /\ edits' = IF counted /\ r.status \in {200, 500} THEN edits + 1 ELSE edits
       /\ applied' = Applied(applied, req.uniqueness_key, r.status, r.contracts # contracts)
       /\ last' = [op |-> "edit", status |-> r.status, events |-> r.events,
                   effects |-> r.effects, req |-> req, at |-> now]
       /\ deliveries' = Dispatch(deliveries, webhookTargets, r.events)
       /\ UNCHANGED <<customers, now, webhookTargets>>

\* handleContractEdit on a request that is handled as it arrives.
HandleContractEdit(req, counted) ==
    RunContractEdit(req, counted, contracts) /\ UNCHANGED inflight

\* The clock moves to a later instant of the set.
Advance(instants) ==
    /\ \E t \in instants : t > now /\ now' = t
    /\ UNCHANGED <<customers, contracts, uniquenessKeys, balances, idCounter, edits, applied,
                   last, webhookTargets, deliveries, inflight>>

(***************************************************************************)
(* Spec: the store under creations and edits of small content, with and    *)
(* without uniqueness keys, addressed to existing and missing contracts.   *)
(***************************************************************************)
EditKeys == {1}

CreateRequests ==
    {[has_required |-> h, customer_id |-> c, starting_at |-> T0, uniqueness_key |-> k] :
        h \in BOOLEAN, c \in CustomerIds, k \in UserKeys \cup {NoKey}}

\* What an edit of the store specification carries.
StoreContents(e) ==
    {e,
     [e EXCEPT !.add_subscriptions = <<SubData(1, T0, "p1", "MONTHLY", NoTier)>>],
     [e EXCEPT !.add_overrides = <<[product_id |-> "p1", starting_at |-> T0,
                                    entitled |-> TRUE]>>,
               !.add_subscriptions = <<SubData(1, T0, "p1", "MONTHLY", NoTier),
                                       [SubData(2, T0, "p1", "MONTHLY", NoTier)
                                           EXCEPT !.has_rate = FALSE]>>],
     [e EXCEPT !.add_prepaid_balance_threshold_configuration =
                   AddConfig(TRUE, 5, 3, "p1", "failed")]}

StoreEdits ==
    UNION {StoreContents(EmptyEdit(cid, cust, k)) :
              cid \in 1..MaxContracts, cust \in CustomerIds, k \in EditKeys \cup {NoKey}}
    \cup {EmptyEdit(NoId, "cus_1", NoKey), EmptyEdit(1, NoCustomer, NoKey)}

CreateContract == \E req \in CreateRequests : HandleCreateContract(req)

EditContract == edits < MaxEdits /\ \E req \in StoreEdits : HandleContractEdit(req, TRUE)

Next == CreateCustomer \/ CreateContract \/ EditContract

Spec == Init /\ [][Next]_vars

(***************************************************************************)
(* SpecBridge: one contract; edits that add its subscriptions, then edits  *)
(* that end a subscription, add one and add a recurring credit (with or    *)
(* without one-time credits), resubmissions of the last edit, and the      *)
(* clock.                                                                  *)
(***************************************************************************)
MaxSetupSubs == 2
MaxSwaps == 1

T1 == MonthStart(FirstMonth + 1)

T2 == MonthStart(FirstMonth + 2)

T3 == MonthStart(FirstMonth + 3)

\* An instant inside December of the year 99.
EarlyStart == MonthStart(12 * 99 + 11) + 1

\* An instant after the first clock value, inside the first hour boundary
\* that follows it.
SoonEnd == T0 + TicksPerHour

\* The contract starts with the first month or inside it.
ContractStarts == {T0, T0 + TicksPerHour}

\* The store after one customer and one contract were created.
InitContract ==
    /\ customers = {"cus_1"}
    /\ contracts \in {<<NewContractV2(1, "cus_1", s, GeneratedId(0))>> : s \in ContractStarts}
    /\ uniquenessKeys = {GeneratedId(0)}
    /\ balances = EmptyBalances
    /\ now = T0 + 1
    /\ idCounter = 1
    /\ edits = 0
    /\ applied = NoneApplied
    /\ last = NoRequest
    /\ webhookTargets = <<>>
    /\ deliveries = <<>>
    /\ inflight = <<>>

Edit1 == EmptyEdit(1, "cus_1", NoKey)

SetupRequests ==
    {[Edit1 EXCEPT !.add_subscriptions = <<SubData(id, T0, "p1", "MONTHLY", tier)>>] :
        id \in {1, 3}, tier \in {"a", "b"}}

SwapUpdates ==
    {<<>>} \cup {<<[subscription_id |-> 1, ending_before |-> e]>> : e \in {SoonEnd, T2}}

SwapSubscriptions ==
    {<<>>, <<SubData(2, T2, "p1", "MONTHLY", "a")>>, <<SubData(2, T2, "p1", "MONTHLY", "b")>>,
     <<SubData(2, T0, "p1", "MONTHLY", "a")>>}

SwapRecurring ==
    {<<RecurringData("p1", st[1], st[2])>> :
        st \in {<<T2, 1>>, <<T2, 2>>, <<T2 + 1, 2>>, <<T0, 2>>, <<T2, NoId>>}}
    \cup {<<RecurringData("p2", T2, id)>> : id \in {1, 2}}

SwapCredits ==
    {<<>>, <<CreditData("p2", <<Item(T1, T2, 7)>>, NoId, NoTier)>>}

SwapRequests ==
    {[Edit1 EXCEPT !.update_subscriptions = u, !.add_subscriptions = s,
                   !.add_recurring_credits = r, !.add_credits = k] :
        u \in SwapUpdates, s \in SwapSubscriptions, r \in SwapRecurring, k \in SwapCredits}

SetupEdit ==
    /\ Len(contracts[1].subscriptions) < MaxSetupSubs
    /\ contracts[1].recurring_credits = <<>>
    /\ \E req \in SetupRequests :
          /\ \A i \in 1..Len(contracts[1].subscriptions) :
                 contracts[1].subscriptions[i].id # req.add_subscriptions[1].temporary_id
          /\ HandleContractEdit(req, FALSE)

SwapEdit ==
    /\ contracts[1].subscriptions # <<>>
    /\ edits < MaxSwaps
    /\ \E req \in SwapRequests : HandleContractEdit(req, TRUE)

Resubmit ==
    /\ last.op = "edit"
    /\ last.req \in SwapRequests
    /\ edits = MaxSwaps
    /\ HandleContractEdit(last.req, TRUE)

BridgeClock == Advance({T0 + TicksPerHour + 1, T1 + 1})

NextBridge == SetupEdit \/ SwapEdit \/ Resubmit \/ BridgeClock

SpecBridge == InitContract /\ [][NextBridge]_vars

(***************************************************************************)
(* SpecRecurring: one contract with one active subscription; edits that    *)
(* add recurring credits (one or two entries, with or without ending the   *)
(* subscription), edits that set the ending_before of a recurring credit   *)
(* on file, edits that add a one-time credit, and the clock.               *)
(***************************************************************************)
MaxRecurringEdits == 3

\* The store after one customer and one contract were created and an edit
\* added subscription 1.
InitRecurring ==
    /\ customers = {"cus_1"}
    /\ contracts =
           <<[NewContractV2(1, "cus_1", T0, GeneratedId(0)) EXCEPT
                 !.subscriptions =
                     <<NewSubscription(SubData(1, T0, "p1", "MONTHLY", "a"), 1)>>]>>
    /\ uniquenessKeys = {GeneratedId(0)}
    /\ balances = EmptyBalances
    /\ now = T0 + 1
    /\ idCounter = 1
    /\ edits = 0
    /\ applied = NoneApplied
    /\ last = NoRequest
    /\ webhookTargets = <<>>
    /\ deliveries = <<>>
    /\ inflight = <<>>

\* Recurring credits for p1 starting in the first hour of T2: without a
\* subscription, with the empty string as subscription id, or bound to
\* subscription 1.
RecurringEntries ==
    {RecurringData("p1", s, b) : s \in {T2, T2 + 1}, b \in {NoId, EmptyId, 1}}

RecurringLists ==
    {<<e>> : e \in RecurringEntries}
    \cup {<<e, e>> : e \in RecurringEntries}
    \cup {<<RecurringData("p1", T2, b), RecurringData("p1", T2 + 1, b)>> : b \in {NoId, EmptyId, 1}}

\* The last request also ends subscription 1 where the recurring credit
\* starts, which makes the recurring credit a bridging one.
RecurringAdds ==
    {[Edit1 EXCEPT !.add_recurring_credits = r] : r \in RecurringLists}
    \cup {[Edit1 EXCEPT !.add_recurring_credits = <<RecurringData("p1", T2, 1)>>,
                        !.update_subscriptions =
                            <<[subscription_id |-> 1, ending_before |-> T2]>>]}

\* The ending_before an update sets: the start of the recurring credits, a
\* later instant of the same hour, the next hour, the next month.
RecurringEnds == {T2, T2 + 1, T2 + TicksPerHour, T3}

\* One-time credits with one schedule item that ends where the recurring
\* credits start, later in that hour, or in the next hour; without a
\* subscription or bound to subscription 2; for p1, and one for p2.
CreditAdds ==
    {[Edit1 EXCEPT !.add_credits = <<CreditData("p1", <<Item(T1, e, 7)>>, b, NoTier)>>] :
        e \in {T2, T2 + 1, T2 + TicksPerHour}, b \in {NoId, 2}}
    \cup {[Edit1 EXCEPT !.add_credits = <<CreditData("p2", <<Item(T1, T2, 7)>>, NoId, NoTier)>>]}

AddRecurring ==
    /\ edits < MaxRecurringEdits
    /\ \E req \in RecurringAdds : HandleContractEdit(req, TRUE)

UpdateRecurring ==
    /\ edits < MaxRecurringEdits
    /\ \E i \in 1..Len(contracts[1].recurring_credits), e \in RecurringEnds :
          HandleContractEdit(
              [Edit1 EXCEPT !.update_recurring_credits =
                  <<[recurring_credit_id |-> contracts[1].recurring_credits[i].id,
                     ending_before |-> e]>>], TRUE)

AddCredit ==
    /\ edits < MaxRecurringEdits
    /\ \E req \in CreditAdds : HandleContractEdit(req, TRUE)

RecurringClock == Advance({T2 + 1})

NextRecurring == AddRecurring \/ UpdateRecurring \/ AddCredit \/ RecurringClock

SpecRecurring == InitRecurring /\ [][NextRecurring]_vars

(***************************************************************************)
(* SpecWebhooks: one contract; webhook targets are registered, edits with  *)
(* and without a payment gate are handled, and the POSTs the dispatcher    *)
(* started end well or badly, or stay pending.                             *)
(***************************************************************************)
MaxWebhookEdits == 2
MaxDeliveries == 4

WebhookTargetNames == {"t1", "t2"}

\* registerWebhookTarget: Set.add keeps a target that is there in its place.
registerWebhookTarget(targets, target) ==
    IF \E i \in 1..Len(targets) : targets[i] = target THEN targets
    ELSE Append(targets, target)

\* POST /webhooks/subscriptions.
RegisterTarget ==
    \E target \in WebhookTargetNames :
        /\ webhookTargets' = registerWebhookTarget(webhookTargets, target)
        /\ UNCHANGED <<customers, contracts, uniquenessKeys, balances, now, idCounter, edits,
                       applied, last, deliveries, inflight>>

\* Mutant: a POST that ended badly is started again.
SettleAndRetry(dl, i, outcome) ==
    IF outcome = "failed"
    THEN Append([dl EXCEPT ![i].state = outcome], [dl[i] EXCEPT !.state = "pending"])
    ELSE [dl EXCEPT ![i].state = outcome]

\* The end of one POST: the response is ok, or it is not ok or fetch threw
\* (failed); both failures are logged and that is all.
Settle(dl, i, outcome) == [dl EXCEPT ![i].state = outcome]

\* A pending POST ends.
Deliver ==
    \E i \in 1..Len(deliveries), outcome \in {"ok", "failed"} :
        /\ deliveries[i].state = "pending"
        /\ deliveries' = Settle(deliveries, i, outcome)
        /\ UNCHANGED <<customers, contracts, uniquenessKeys, balances, now, idCounter, edits,
                       applied, last, webhookTargets, inflight>>

\* Edits with nothing in them, with a uniqueness key, and with a threshold
\* configuration whose commit names no product (a payment-gate event and no
\* balance).
WebhookEdits ==
    {Edit1,
     EmptyEdit(1, "cus_1", 1),
     [Edit1 EXCEPT !.add_prepaid_balance_threshold_configuration =
                       [AddConfig(TRUE, 5, 3, NoProduct, "failed") EXCEPT !.has_commit = TRUE]]}

WebhookEdit ==
    /\ edits < MaxWebhookEdits
    /\ Len(deliveries) < MaxDeliveries
    /\ \E req \in WebhookEdits : HandleContractEdit(req, TRUE)

NextWebhooks == RegisterTarget \/ WebhookEdit \/ Deliver

SpecWebhooks == InitContract /\ [][NextWebhooks]_vars

(***************************************************************************)
(* SpecConcurrent: one contract with one subscription; edit requests are   *)
(* submitted, and the handler is called for the submitted requests one at  *)
(* a time, in any order: handleContractEdit has no await, so each call     *)
(* runs from its first statement to its response before another starts.    *)
(***************************************************************************)
MaxInflight == 2

\* The store as a request finds it.
StoreNow ==
    [contracts |-> contracts, keys |-> uniquenessKeys, balances |-> balances,
     ctr |-> idCounter]

\* Edits that add a recurring credit, a one-time credit ending where it
\* starts, a subscription, an override; that end subscription 1; that carry
\* a uniqueness key.
ConcurrentEdits ==
    {[Edit1 EXCEPT !.add_recurring_credits = <<RecurringData("p1", T2, NoId)>>],
     [Edit1 EXCEPT !.add_credits = <<CreditData("p1", <<Item(T1, T2, 7)>>, NoId, NoTier)>>],
     [Edit1 EXCEPT !.add_subscriptions = <<SubData(2, T0, "p2", "MONTHLY", NoTier)>>],
     [Edit1 EXCEPT !.add_overrides = <<[product_id |-> "p1", starting_at |-> T0,
                                        entitled |-> TRUE]>>],
     [Edit1 EXCEPT !.update_subscriptions = <<[subscription_id |-> 1, ending_before |-> T2]>>],
     EmptyEdit(1, "cus_1", 1)}

\* A request reaches the server; its handler has not been called yet.
Submit ==
    /\ Len(inflight) < MaxInflight
    /\ \E req \in ConcurrentEdits :
          inflight' = Append(inflight, [req |-> req, seen |-> StoreNow, handled |-> FALSE])
    /\ UNCHANGED <<customers, contracts, uniquenessKeys, balances, now, idCounter, edits,
                   applied, last, webhookTargets, deliveries>>

\* The handler is called for one of the submitted requests and runs to its
\* response.
HandleSubmitted ==
    \E i \in 1..Len(inflight) :
        /\ ~inflight[i].handled
        /\ RunContractEdit(inflight[i].req, TRUE, inflight[i].seen.contracts)
        /\ inflight' = [inflight EXCEPT ![i].handled = TRUE]

NextConcurrent == Submit \/ HandleSubmitted

SpecConcurrent == InitRecurring /\ [][NextConcurrent]_vars

\* The event loop calls the handler for every request it has received, and
\* the clients of the scenario do submit their requests.
SpecConcurrentFair ==
    SpecConcurrent /\ WF_vars(HandleSubmitted) /\ WF_vars(Submit)

(***************************************************************************)
(* SpecThreshold: two contracts, of one customer or of two; edits that add *)
(* a prepaid balance threshold configuration, that update it, or both.     *)
(***************************************************************************)
MaxThresholdEdits == 2

\* The store after two customers and two contracts were created; the second
\* contract belongs to the first customer or to the second.
InitThreshold ==
    /\ customers = {"cus_1", "cus_2"}
    /\ contracts \in {<<NewContractV2(1, "cus_1", T0, GeneratedId(0)),
                        NewContractV2(2, owner, T0, GeneratedId(1))>> : owner \in CustomerIds}
    /\ uniquenessKeys = {GeneratedId(0), GeneratedId(1)}
    /\ balances = EmptyBalances
    /\ now = T0 + 1
    /\ idCounter = 2
    /\ edits = 0
    /\ applied = NoneApplied
    /\ last = NoRequest
    /\ webhookTargets = <<>>
    /\ deliveries = <<>>
    /\ inflight = <<>>

\* A commit that names no product.
CommitWithoutProduct(add) == [add EXCEPT !.has_commit = TRUE, !.commit_product = NoProduct]

\* Configurations to add: enabled with threshold 5 (and one with 8) and a
\* recharge amount above, below or absent, paid, failed or with no status;
\* disabled; with a threshold of 0 or none; without commit; with a commit
\* without product.
ThresholdAdds ==
    {AddConfig(TRUE, 5, 8, "p1", "paid"),
     AddConfig(TRUE, 8, 8, "p1", "paid"),
     AddConfig(TRUE, 5, 8, "p1", "failed"),
     AddConfig(TRUE, 5, 3, "p1", ""),
     AddConfig(TRUE, 5, NoAmount, "p1", "paid"),
     AddConfig(TRUE, 5, NoAmount, "p1", "failed"),
     AddConfig(FALSE, 5, 3, "p2", "paid"),
     AddConfig(TRUE, 0, 3, "p1", "failed"),
     AddConfig(TRUE, 0, -2, "p1", "failed"),
     AddConfig(TRUE, NoAmount, NoAmount, "p1", ""),
     AddConfig(TRUE, 5, 3, NoProduct, "failed"),
     CommitWithoutProduct(AddConfig(TRUE, 5, 3, NoProduct, "paid"))}

UpdateConfig(fields, enabled, threshold, recharge, commitProduct, status) ==
    [present |-> TRUE, fields |-> fields, is_enabled |-> enabled,
     threshold_amount |-> threshold, recharge_to_amount |-> recharge,
     payment_gate_config |-> "", commit_product |-> commitProduct,
     mock_payment_status |-> status]

\* Updates that name one or two fields of the configuration.
ThresholdUpdates ==
    {UpdateConfig({"is_enabled"}, TRUE, NoAmount, NoAmount, NoProduct, ""),
     UpdateConfig({"is_enabled"}, FALSE, NoAmount, NoAmount, NoProduct, ""),
     UpdateConfig({"threshold_amount"}, FALSE, 8, NoAmount, NoProduct, ""),
     UpdateConfig({"recharge_to_amount", "mock_payment_status"}, FALSE, NoAmount, 3,
                  NoProduct, "paid"),
     UpdateConfig({"mock_payment_status"}, FALSE, NoAmount, NoAmount, NoProduct, "failed"),
     UpdateConfig({"commit"}, FALSE, NoAmount, NoAmount, "p2", ""),
     UpdateConfig({"commit", "mock_payment_status"}, FALSE, NoAmount, NoAmount, "p1", "paid")}

\* What an edit of this specification carries: an add, an update, or an
\* update that asks for a payment status together with an add.
ThresholdContents(e) ==
    {[e EXCEPT !.add_prepaid_balance_threshold_configuration = a] : a \in ThresholdAdds}
    \cup {[e EXCEPT !.update_prepaid_balance_threshold_configuration = u] :
             u \in ThresholdUpdates}
    \cup {[e EXCEPT !.update_prepaid_balance_threshold_configuration =
                        UpdateConfig({"mock_payment_status"}, FALSE, NoAmount, NoAmount,
                                     NoProduct, "failed"),
                    !.add_prepaid_balance_threshold_configuration =
                        AddConfig(TRUE, 5, 3, NoProduct, "failed")],
           [e EXCEPT !.update_prepaid_balance_threshold_configuration =
                        UpdateConfig({"commit", "mock_payment_status"}, FALSE, NoAmount,
                                     NoAmount, "p1", "failed"),
                    !.add_prepaid_balance_threshold_configuration =
                        AddConfig(TRUE, 5, 8, "p2", "")]}

ThresholdEdit ==
    /\ edits < MaxThresholdEdits
    /\ \E cid \in 1..Len(contracts) :
          \E req \in ThresholdContents(EmptyEdit(cid, contracts[cid].customer_id, NoKey)) :
              HandleContractEdit(req, TRUE)

NextThreshold == ThresholdEdit

SpecThreshold == InitThreshold /\ [][NextThreshold]_vars

(***************************************************************************)
(* SpecCollections: one contract with one subscription; edits that add to  *)
(* each of its collections, that end a subscription or a recurring credit  *)
(* on file, that archive a credit on file, and an edit that fails midway.  *)
(***************************************************************************)
MaxCollectionEdits == 3

\* Edits that add a subscription; two subscriptions of which the second has
\* no rate (the handler throws on it); a recurring credit, bridging or not;
\* a one-time credit; one or two overrides; and that end subscription 1.
CollectionEdits ==
    {[Edit1 EXCEPT !.add_subscriptions = <<SubData(2, T0, "p2", "MONTHLY", NoTier)>>],
     [Edit1 EXCEPT !.add_subscriptions =
                       <<SubData(3, T0, "p1", "MONTHLY", NoTier),
                         [SubData(4, T0, "p1", "MONTHLY", NoTier) EXCEPT !.has_rate = FALSE]>>],
     [Edit1 EXCEPT !.add_recurring_credits = <<RecurringData("p1", T2, 1)>>,
                   !.update_subscriptions = <<[subscription_id |-> 1, ending_before |-> T2]>>],
     [Edit1 EXCEPT !.add_recurring_credits = <<RecurringData("p1", T2, NoId)>>],
     [Edit1 EXCEPT !.add_credits = <<CreditData("p1", <<Item(T1, T2, 7)>>, NoId, NoTier)>>],
     [Edit1 EXCEPT !.add_overrides =
                       <<[product_id |-> "p1", starting_at |-> T0, entitled |-> TRUE],
                         [product_id |-> "p2", starting_at |-> T0, entitled |-> FALSE]>>],
     [Edit1 EXCEPT !.add_overrides =
                       <<[product_id |-> "p1", starting_at |-> T1, entitled |-> FALSE]>>],
     [Edit1 EXCEPT !.update_subscriptions = <<[subscription_id |-> 1, ending_before |-> T2]>>]}

AddToCollections ==
    /\ edits < MaxCollectionEdits
    /\ \E req \in CollectionEdits : HandleContractEdit(req, TRUE)

\* An edit archives a credit of the contract.
ArchiveCredit ==
    /\ edits < MaxCollectionEdits
    /\ \E i \in 1..Len(contracts[1].credits) :
          HandleContractEdit(
              [Edit1 EXCEPT !.archive_credits = <<[id |-> contracts[1].credits[i].id]>>], TRUE)

\* An edit ends a recurring credit of the contract.
EndRecurringCredit ==
    /\ edits < MaxCollectionEdits
    /\ \E i \in 1..Len(contracts[1].recurring_credits) :
          HandleContractEdit(
              [Edit1 EXCEPT !.update_recurring_credits =
                  <<[recurring_credit_id |-> contracts[1].recurring_credits[i].id,
                     ending_before |-> T3]>>], TRUE)

NextCollections == AddToCollections \/ ArchiveCredit \/ EndRecurringCredit

SpecCollections == InitRecurring /\ [][NextCollections]_vars

(***************************************************************************)
(* SpecOwnership: two contracts, of one customer or of two, and edits of   *)
(* either that add to its collections and end its subscription 1.          *)
(***************************************************************************)
MaxOwnershipEdits == 3

\* What an edit of this specification carries: a subscription with the
\* temporary id 1 or with none, the end of subscription 1 (alone or with a
\* recurring credit that is bridged), a one-time credit, an override, a
\* threshold configuration with a commit.
OwnershipContents(e) ==
    {[e EXCEPT !.add_subscriptions = <<SubData(1, T0, "p1", "MONTHLY", "a")>>],
     [e EXCEPT !.add_subscriptions = <<SubData(NoId, T0, "p1", "MONTHLY", NoTier)>>],
     [e EXCEPT !.update_subscriptions = <<[subscription_id |-> 1, ending_before |-> T2]>>],
     [e EXCEPT !.update_subscriptions = <<[subscription_id |-> 1, ending_before |-> T2]>>,
               !.add_recurring_credits = <<RecurringData("p1", T2, 1)>>],
     [e EXCEPT !.add_credits = <<CreditData("p1", <<Item(T1, T2, 7)>>, NoId, NoTier)>>],
     [e EXCEPT !.add_overrides = <<[product_id |-> "p1", starting_at |-> T0,
                                    entitled |-> TRUE]>>],
     [e EXCEPT !.add_prepaid_balance_threshold_configuration =
                   AddConfig(TRUE, 5, 3, "p1", "")]}

OwnershipEdit ==
    /\ edits < MaxOwnershipEdits
    /\ \E cid \in 1..Len(contracts) :
          \E req \in OwnershipContents(EmptyEdit(cid, contracts[cid].customer_id, NoKey)) :
              HandleContractEdit(req, TRUE)

NextOwnership == OwnershipEdit

SpecOwnership == InitThreshold /\ [][NextOwnership]_vars

(***************************************************************************)
(* SpecRenormalize: recurring credits whose starts are two instants of one *)
(* hour, in the year 2024 and in the year 99, added, ended and added again.*)
(***************************************************************************)
MaxRenormalizeEdits == 3

\* Two instants of the first hour of T2 and two of an hour of the year 99.
RenormalizeStarts == {T2, T2 + 1, EarlyStart - 1, EarlyStart}

\* No subscription, the empty string, subscription 1 of the contract, and a
\* subscription 2 the contract does not hold.
RenormalizeBindings == {NoId, EmptyId, 1, 2}

AddRenormalized ==
    /\ edits < MaxRenormalizeEdits
    /\ \E s \in RenormalizeStarts, b \in RenormalizeBindings :
          HandleContractEdit(
              [Edit1 EXCEPT !.add_recurring_credits = <<RecurringData("p1", s, b)>>], TRUE)

\* An update ends a recurring credit at its start, later in that hour, or in
\* the next month.
EndRenormalized ==
    /\ edits < MaxRenormalizeEdits
    /\ \E i \in 1..Len(contracts[1].recurring_credits), e \in {T2, T2 + 1, T3} :
          HandleContractEdit(
              [Edit1 EXCEPT !.update_recurring_credits =
                  <<[recurring_credit_id |-> contracts[1].recurring_credits[i].id,
                     ending_before |-> e]>>], TRUE)

NextRenormalize == AddRenormalized \/ EndRenormalized

SpecRenormalize == InitRecurring /\ [][NextRenormalize]_vars

(***************************************************************************)
(* handleGetContract, and SpecRetrieve: customers and contracts are created,*)
(* contracts are edited by their owners (subscriptions added, with and     *)
(* without temporary id and initial quantity; edits that throw after a     *)
(* step has run) and retrieved with the id of the owner or of another.     *)
(***************************************************************************)
NoData == [id |-> NoId]

\* Mutant: the owner of the contract is not compared.
GetResultAnyCustomer(cs, req) ==
    IF req.contract_id = NoId THEN [status |-> 400, data |-> NoData]
    ELSE IF req.customer_id = NoCustomer THEN [status |-> 400, data |-> NoData]
    ELSE IF req.contract_id \notin 1..Len(cs) THEN [status |-> 404, data |-> NoData]
    ELSE [status |-> 200, data |-> cs[req.contract_id]]

\* handleGetContract: the response to the contract id and customer id the
\* request carries (params or body, query or body).
GetResult(cs, req) ==
    IF req.contract_id = NoId THEN [status |-> 400, data |-> NoData]
    ELSE IF req.customer_id = NoCustomer THEN [status |-> 400, data |-> NoData]
    ELSE IF req.contract_id \notin 1..Len(cs) THEN [status |-> 404, data |-> NoData]
    ELSE IF cs[req.contract_id].customer_id # req.customer_id
    THEN [status |-> 404, data |-> NoData]
    ELSE [status |-> 200, data |-> cs[req.contract_id]]

HandleGetContract(req) ==
    \E r \in {GetResult(contracts, req)} :
       /\ last' = [op |-> "get", status |-> r.status, events |-> <<>>, effects |-> <<>>,
                   req |-> req, at |-> now, data |-> r.data]
       /\ UNCHANGED <<customers, contracts, uniquenessKeys, balances, now, idCounter, edits,
                      applied, webhookTargets, deliveries, inflight>>

MaxRetrieveEdits == 2

\* A customer id no customer has.
StrangerId == "cus_9"

RetrieveCreates ==
    {[has_required |-> h, customer_id |-> c, starting_at |-> T0, uniqueness_key |-> NoKey] :
        h \in BOOLEAN, c \in CustomerIds}

\* Entries of add_subscriptions: the temporary id is absent, the empty string
\* or 1; the initial quantity is absent, 0 or 3.
RetrieveSubs ==
    {[SubData(t, T0 + 1, "p1", "MONTHLY", NoTier) EXCEPT !.initial_quantity = q] :
        t \in {NoId, EmptyId, 1}, q \in {NoAmount, 0, 3}}

Unrated(subData) == [subData EXCEPT !.has_rate = FALSE]

\* What an edit of this specification carries: one entry; two entries; and,
\* with the uniqueness key 1 and a threshold configuration that asks for a
\* payment, an entry followed by one without subscription_rate, alone or
\* after subscription 1 is ended.
RetrieveContents(e) ==
    {[e EXCEPT !.add_subscriptions = <<d>>] : d \in RetrieveSubs}
    \cup {[e EXCEPT !.add_subscriptions =
                        <<SubData(1, T0, "p1", "MONTHLY", NoTier),
                          SubData(NoId, T0 + 1, "p2", "ANNUAL", NoTier)>>]}
    \cup {[e EXCEPT !.uniqueness_key = 1,
                    !.update_subscriptions = u,
                    !.add_subscriptions = <<SubData(2, T0, "p1", "MONTHLY", NoTier),
                                            Unrated(SubData(3, T0, "p1", "MONTHLY", NoTier))>>,
                    !.add_prepaid_balance_threshold_configuration =
                        AddConfig(TRUE, 5, 8, "p1", "paid")] :
             u \in {<<>>, <<[subscription_id |-> 1, ending_before |-> T2]>>}}

CreateForRetrieve == \E req \in RetrieveCreates : HandleCreateContract(req)

EditForRetrieve ==
    /\ edits < MaxRetrieveEdits
    /\ \E cid \in 1..Len(contracts) :
          \E req \in RetrieveContents(EmptyEdit(cid, contracts[cid].customer_id, NoKey)) :
              HandleContractEdit(req, TRUE)

Retrieve ==
    \E cid \in 1..MaxContracts, cust \in CustomerIds \cup {StrangerId, NoCustomer} :
        HandleGetContract([contract_id |-> cid, customer_id |-> cust])

NextRetrieve == CreateCustomer \/ CreateForRetrieve \/ EditForRetrieve \/ Retrieve

SpecRetrieve == Init /\ [][NextRetrieve]_vars

(***************************************************************************)
(* SpecPeriods: one contract, started with the first month, inside it or   *)
(* inside the next, with subscription 1; edits that end subscription 1 at  *)
(* T3 and add a recurring credit bound to it that starts in the month of   *)
(* the clock or a later one; and the clock.                                *)
(***************************************************************************)
MaxPeriodEdits == 2

PeriodContractStarts == {T0, T0 + TicksPerHour, T1 + TicksPerHour}

InitPeriods ==
    /\ customers = {"cus_1"}
    /\ contracts \in
           {<<[NewContractV2(1, "cus_1", s, GeneratedId(0)) EXCEPT
                  !.subscriptions =
                      <<NewSubscription(SubData(1, T0, "p1", "MONTHLY", "a"), 1)>>]>> :
               s \in PeriodContractStarts}
    /\ uniquenessKeys = {GeneratedId(0)}
    /\ balances = EmptyBalances
    /\ now = T0 + 1
    /\ idCounter = 1
    /\ edits = 0
    /\ applied = NoneApplied
    /\ last = NoRequest
    /\ webhookTargets = <<>>
    /\ deliveries = <<>>
    /\ inflight = <<>>

\* Starts of the recurring credit: the second hour of the first month, the
\* second month (its first instant, the next, its second hour), the third
\* month and the fourth.
PeriodStarts == {T0 + TicksPerHour, T1, T1 + 1, T1 + TicksPerHour, T2, T2 + 1, T3}

PeriodEdits ==
    {[Edit1 EXCEPT !.update_subscriptions = <<[subscription_id |-> 1, ending_before |-> T3]>>,
                   !.add_recurring_credits = <<RecurringData(p, s, 1)>>,
                   !.add_credits = k] :
        p \in Products, s \in PeriodStarts,
        k \in {<<>>, <<CreditData("p2", <<Item(T0, T1, 7)>>, NoId, NoTier)>>}}

PeriodEdit ==
    /\ edits < MaxPeriodEdits
    /\ \E req \in PeriodEdits : HandleContractEdit(req, TRUE)

PeriodClock == Advance({T0 + TicksPerHour + 1, T1 + 1, T2 + 1})

NextPeriods == PeriodEdit \/ PeriodClock

SpecPeriods == InitPeriods /\ [][NextPeriods]_vars

(***************************************************************************)
(* SpecContexts: one contract with subscription 1 (product p1) and         *)
(* subscription 3 (product p2), each with or without a tier; edits that    *)
(* add a one-time credit of one or two schedule items or of none, bound or *)
(* not, with or without a tier; edits that archive a credit; and the swap  *)
(* that ends subscription 1 at T2, adds subscription 2 from T2 and a       *)
(* recurring credit for p1 from T2 bound to it.                            *)
(***************************************************************************)
MaxContextEdits == 3

InitContexts ==
    /\ customers = {"cus_1"}
    /\ contracts \in
           {<<[NewContractV2(1, "cus_1", T0, GeneratedId(0)) EXCEPT
                  !.subscriptions =
                      <<NewSubscription(SubData(1, T0, "p1", "MONTHLY", t1), 1),
                        NewSubscription(SubData(3, T0, "p2", "MONTHLY", t3), 1)>>]>> :
               t1 \in {"a", NoTier}, t3 \in {"b", NoTier}}
    /\ uniquenessKeys = {GeneratedId(0)}
    /\ balances = EmptyBalances
    /\ now = T0 + 1
    /\ idCounter = 1
    /\ edits = 0
    /\ applied = NoneApplied
    /\ last = NoRequest
    /\ webhookTargets = <<>>
    /\ deliveries = <<>>
    /\ inflight = <<>>

\* Schedules of the credits added: the period the swap bridges, the period
\* after it, and the bridged period followed by its first month.
ContextSchedules ==
    {<<Item(T0, T2, 5)>>, <<Item(T2, T3, 5)>>, <<Item(T0, T2, 5), Item(T0, T1, 5)>>}

\* The last entry has no schedule_items.
ContextCredits ==
    {[Edit1 EXCEPT !.add_credits = <<CreditData(p, items, sub, tier)>>] :
        p \in Products, items \in ContextSchedules, sub \in {NoId, 1, 3},
        tier \in {NoTier, "a"}}
    \cup {[Edit1 EXCEPT !.add_credits =
               <<[CreditData("p2", <<>>, 1, "a") EXCEPT !.has_items = FALSE]>>]}

ContextSwaps ==
    {[Edit1 EXCEPT !.update_subscriptions = <<[subscription_id |-> 1, ending_before |-> T2]>>,
                   !.add_subscriptions = <<SubData(2, T2, "p1", "MONTHLY", tier)>>,
                   !.add_recurring_credits = <<RecurringData("p1", T2, 2)>>] :
        tier \in {NoTier, "a", "b"}}

AddContextCredit ==
    /\ edits < MaxContextEdits
    /\ \E req \in ContextCredits : HandleContractEdit(req, TRUE)

ArchiveContextCredit ==
    /\ edits < MaxContextEdits
    /\ \E i \in 1..Len(contracts[1].credits) :
          HandleContractEdit(
              [Edit1 EXCEPT !.archive_credits = <<[id |-> contracts[1].credits[i].id]>>], TRUE)

SwapContexts ==
    /\ edits < MaxContextEdits
    /\ \E req \in ContextSwaps : HandleContractEdit(req, TRUE)

NextContexts == AddContextCredit \/ ArchiveContextCredit \/ SwapContexts

SpecContexts == InitContexts /\ [][NextContexts]_vars

(***************************************************************************)
(* SpecNextPeriod: one contract with subscription 1; edits that add, in    *)
(* any combination, subscription 2, a recurring credit (starting with a    *)
(* month or in its second hour; unbound or bound to subscription 1 or 2)   *)
(* and a one-time credit (one item ending with the month, inside its first *)
(* hour or in its second hour; two items; or no schedule_items).           *)
(***************************************************************************)
MaxNextPeriodEdits == 2

NextPeriodSubscriptions == {<<>>, <<SubData(2, T0, "p1", "MONTHLY", "b")>>}

NextPeriodRecurring ==
    {<<>>, <<RecurringData("p2", T2, NoId)>>}
    \cup {<<RecurringData("p1", s, b)>> : s \in {T2, T2 + TicksPerHour}, b \in {NoId, 1, 2}}

NextPeriodCredits ==
    {<<>>,
     <<CreditData("p1", <<Item(T1, T2, 7), Item(T0, T1, 3)>>, 1, NoTier)>>,
     <<[CreditData("p1", <<>>, NoId, NoTier) EXCEPT !.has_items = FALSE]>>}
    \cup {<<CreditData("p1", <<Item(T1, e, 7)>>, b, t)>> :
             e \in {T2, T2 + 1, T2 + TicksPerHour}, b \in {NoId, 1, 2}, t \in {NoTier, "c"}}

NextPeriodEdits ==
    {[Edit1 EXCEPT !.add_subscriptions = s, !.add_recurring_credits = r, !.add_credits = k] :
        s \in NextPeriodSubscriptions, r \in NextPeriodRecurring, k \in NextPeriodCredits}

NextPeriodEdit ==
    /\ edits < MaxNextPeriodEdits
    /\ \E req \in NextPeriodEdits : HandleContractEdit(req, TRUE)

NextNextPeriod == NextPeriodEdit

SpecNextPeriod == InitRecurring /\ [][NextNextPeriod]_vars

(***************************************************************************)
(* SpecEndings: one contract with subscription 1; edits that add a         *)
(* recurring credit and a one-time credit, or a second subscription with   *)
(* the id 1; edits that update a subscription and a recurring credit (on   *)
(* file or unknown, with or without an ending_before) and archive a credit *)
(* (on file or unknown); and the clock.                                    *)
(***************************************************************************)
MaxEndingEdits == 3

\* An id that no subscription, recurring credit or credit has.
UnknownId == 9

EndingAdds ==
    {[Edit1 EXCEPT !.add_recurring_credits = <<RecurringData("p1", T2, NoId)>>,
                   !.add_credits = <<CreditData("p1", <<Item(T0, T1, 7)>>, NoId, NoTier)>>],
     [Edit1 EXCEPT !.add_subscriptions = <<SubData(1, T1, "p1", "MONTHLY", "a")>>]}

EndingSubscriptionUpdates ==
    {<<>>} \cup {<<[subscription_id |-> s, ending_before |-> e]>> :
                    s \in {1, UnknownId}, e \in {NoTime, T2, T3}}

EndingRecurringUpdates ==
    {<<>>} \cup {<<[recurring_credit_id |-> r, ending_before |-> e]>> :
                    r \in {contracts[1].recurring_credits[i].id :
                              i \in 1..Len(contracts[1].recurring_credits)} \cup {UnknownId},
                    e \in {NoTime, T3}}

EndingArchives ==
    {<<>>} \cup {<<[id |-> k]>> :
                    k \in {contracts[1].credits[i].id : i \in 1..Len(contracts[1].credits)}
                              \cup {UnknownId}}

AddForEndings ==
    /\ edits < MaxEndingEdits
    /\ \E req \in EndingAdds : HandleContractEdit(req, TRUE)

UpdateEndings ==
    /\ edits < MaxEndingEdits
    /\ \E su \in EndingSubscriptionUpdates, ru \in EndingRecurringUpdates,
          ar \in EndingArchives :
          HandleContractEdit([Edit1 EXCEPT !.update_subscriptions = su,
                                           !.update_recurring_credits = ru,
                                           !.archive_credits = ar], TRUE)

EndingsClock == Advance({T0 + TicksPerHour + 1})

NextEndings == AddForEndings \/ UpdateEndings \/ EndingsClock

SpecEndings == InitRecurring /\ [][NextEndings]_vars

(***************************************************************************)
(* SpecAddMonths: addMonths applied to the first instants of months around *)
(* the first clock value (a turn of the year) and around January of the    *)
(* year 100, with positive and negative numbers of months, and applied     *)
(* back with the opposite number.                                          *)
(***************************************************************************)
MaxMonthsAdded == 13

AddMonthsDates ==
    {MonthStart(k) : k \in (FirstMonth..(FirstMonth + 3)) \cup ((12 * 100 - 2)..(12 * 100 + 1))}

\* One call of addMonths and the call that undoes it.
CallAddMonths ==
    /\ \E t \in AddMonthsDates, n \in (-MaxMonthsAdded)..MaxMonthsAdded :
          last' = [op |-> "addMonths", status |-> 0, events |-> <<>>, effects |-> <<>>,
                   date |-> t, months |-> n, result |-> addMonths(t, n),
                   back |-> addMonths(addMonths(t, n), -n)]
    /\ UNCHANGED <<customers, contracts, uniquenessKeys, balances, now, idCounter, edits,
                   applied, webhookTargets, deliveries, inflight>>

NextAddMonths == CallAddMonths

SpecAddMonths == Init /\ [][NextAddMonths]_vars

(***************************************************************************)
(* Properties.                                                             *)
(***************************************************************************)

\* The precondition of an edit fails on the store as it is before the
\* request: the contract is missing, belongs to another customer, or the
\* supplied uniqueness key is registered.
ContractMissing(req) == req.contract_id \notin 1..Len(contracts)

CustomerMismatch(req) ==
    ~ContractMissing(req) /\ contracts[req.contract_id].customer_id # req.customer_id

KeyRegistered(req) == req.uniqueness_key # NoKey /\ req.uniqueness_key \in uniquenessKeys

\* C1: an edit naming a missing contract or another customer's contract is
\* answered not-found, one supplying a registered uniqueness key is answered
\* conflict, and in each case the contracts, the uniqueness keys and the
\* balances are as before the request and no event is emitted.
C1_RejectedEditChangesNothing ==
    [][(/\ last'.op = "edit"
        /\ last'.req.contract_id # NoId
        /\ last'.req.customer_id # NoCustomer
        /\ (ContractMissing(last'.req) \/ CustomerMismatch(last'.req) \/ KeyRegistered(last'.req)))
       => (/\ last'.status =
                 IF ContractMissing(last'.req) \/ CustomerMismatch(last'.req) THEN 404 ELSE 409
           /\ contracts' = contracts
           /\ uniquenessKeys' = uniquenessKeys
           /\ balances' = balances
           /\ last'.events = <<>>)]_vars

\* C1 witness: an edit that would set a balance and emit events was answered
\* conflict.
C1_Witness ==
    /\ last.op = "edit"
    /\ last.status = 409
    /\ last.req.add_prepaid_balance_threshold_configuration.present

\* C2 (amended): a request supplying a registered uniqueness key is rejected
\* and persists nothing; the rejection is a conflict when no earlier check
\* (missing field, unknown customer or contract) rejects the request; a
\* request answered with success registers its key and keys are never
\* unregistered; so at most one request per key is ever answered with
\* success.
C2_KeyAcceptedAtMostOnce ==
    /\ [](\A k \in UserKeys : applied[k].ok <= 1)
    /\ [][(/\ last'.op \in {"create", "edit"}
           /\ KeyRegistered(last'.req))
          => (/\ last'.status \in {400, 404, 409}
              /\ (last'.op = "create" /\ last'.req.has_required
                    /\ last'.req.customer_id \in customers => last'.status = 409)
              /\ (last'.op = "edit" /\ last'.req.contract_id # NoId
                    /\ last'.req.customer_id # NoCustomer
                    /\ ~ContractMissing(last'.req) /\ ~CustomerMismatch(last'.req)
                    => last'.status = 409)
              /\ contracts' = contracts
              /\ uniquenessKeys' = uniquenessKeys
              /\ balances' = balances)]_vars
    /\ [][/\ uniquenessKeys \subseteq uniquenessKeys'
          /\ (last'.op \in {"create", "edit"} /\ last'.status \in {200, 201}
                /\ last'.req.uniqueness_key # NoKey
                => last'.req.uniqueness_key \in uniquenessKeys')]_vars

\* C2 witness: a key registered by a successful edit was supplied again, by a
\* creation, and refused.
C2_Witness ==
    /\ last.op = "create"
    /\ last.status = 409
    /\ \E k \in UserKeys : applied[k].ok = 1 /\ last.req.uniqueness_key = k
    /\ \A i \in 1..Len(contracts) : contracts[i].uniqueness_key # last.req.uniqueness_key

\* C2 as stated: at most one request per key is ever applied, that is, no
\* two requests supplying the same key change the contracts.
C2_Original == \A k \in UserKeys : applied[k].changed <= 1

(***************************************************************************)
(* Credits and recurring credits of the contracts.                         *)
(***************************************************************************)
Unarchived(k) == k.archived_at = NoTime

\* Same product, same subscription binding (the same tier when unbound) and
\* an identical schedule.
Duplicates(a, b) ==
    /\ a.product_id = b.product_id
    /\ a.subscription_id = b.subscription_id
    /\ (a.subscription_id = NoId => a.tier_id = b.tier_id)
    /\ a.items # <<>> /\ b.items # <<>>
    /\ a.items[1].starting_at = b.items[1].starting_at
    /\ a.items[1].ending_before = b.items[1].ending_before

BridgeCredits(credits) == Filter(credits, LAMBDA k : k.origin = "bridge" /\ Unarchived(k))

\* C3 as stated: a contract never holds two unarchived credits with the same
\* product, the same binding (or tier when unbound) and an identical schedule.
C3_Original ==
    \A c \in 1..Len(contracts) :
        \A i, j \in 1..Len(contracts[c].credits) :
            (i < j /\ Unarchived(contracts[c].credits[i]) /\ Unarchived(contracts[c].credits[j]))
                => ~Duplicates(contracts[c].credits[i], contracts[c].credits[j])

\* C3 (amended): the bridging upsert appends no duplicate: a credit that
\* bridging appends in an edit duplicates no unarchived credit that precedes
\* it on the contract after that edit.  (add_credits and the next-period
\* credits it generates are always appended.)
C3_BridgingAppendsNoDuplicate ==
    [][\A c \in 1..Len(contracts) :
          \A j \in (Len(contracts[c].credits) + 1)..Len(contracts'[c].credits) :
              contracts'[c].credits[j].origin = "bridge"
                  => \A i \in 1..(j - 1) :
                         Unarchived(contracts'[c].credits[i])
                             => ~Duplicates(contracts'[c].credits[i], contracts'[c].credits[j])]_vars

\* C3 witness: a bridging edit was submitted twice and the contract holds the
\* two bridge credits of the first submission only.
C3_Witness ==
    /\ edits = MaxSwaps + 1
    /\ last.op = "edit"
    /\ last.req.add_recurring_credits = <<RecurringData("p1", T2, 2)>>
    /\ last.req.add_credits = <<>>
    /\ Len(BridgeCredits(contracts[1].credits)) = 2

\* The step is the second submission of the edit last handled (SpecBridge).
Resubmitted == edits = MaxSwaps /\ edits' = MaxSwaps + 1

Ids(credits) == [i \in 1..Len(credits) |-> credits[i].id]

\* C6 as stated: when an edit that bridged a gap is submitted again in the
\* same clock month, the bridge credits are the same records as before.
C6_Original ==
    [][(/\ Resubmitted
        /\ BridgeCredits(contracts[1].credits) # <<>>
        /\ startOfMonth(now) = startOfMonth(last.at))
       => Ids(BridgeCredits(contracts'[1].credits)) = Ids(BridgeCredits(contracts[1].credits))]_vars

\* The subscriptions active at the instant n are those active at m.
SameActive(subs, n, m) == \A i \in 1..Len(subs) : SubActive(subs[i], n) = SubActive(subs[i], m)

\* C6 (amended): when an edit that bridged a gap is submitted again in the
\* same clock month and the subscriptions active at the second submission
\* are those active at the first, the bridge credits are the same records as
\* before: no bridge credit is added.
C6_BridgingIdempotent ==
    [][(/\ Resubmitted
        /\ BridgeCredits(contracts[1].credits) # <<>>
        /\ startOfMonth(now) = startOfMonth(last.at)
        /\ SameActive(contracts[1].subscriptions, now, last.at))
       => Ids(BridgeCredits(contracts'[1].credits)) = Ids(BridgeCredits(contracts[1].credits))]_vars

\* C6 witness: a swap that bridged a gap was submitted again later in the
\* month, and the contract holds the two bridge credits of the first
\* submission.
C6_Witness ==
    /\ edits = MaxSwaps + 1
    /\ last.op = "edit"
    /\ last.at = T0 + TicksPerHour + 1
    /\ last.req.update_subscriptions = <<[subscription_id |-> 1, ending_before |-> T2]>>
    /\ last.req.add_recurring_credits = <<RecurringData("p1", T2, 1)>>
    /\ Ids(BridgeCredits(contracts[1].credits)) = <<GeneratedId(2), GeneratedId(3)>>

\* The contract holds an unarchived credit for the product, bound to the
\* subscription, whose schedule item covers [s, e).
HasCredit(credits, productId, subId, s, e) ==
    \E i \in 1..Len(credits) :
        /\ Unarchived(credits[i])
        /\ credits[i].product_id = productId
        /\ credits[i].subscription_id = subId
        /\ credits[i].items # <<>>
        /\ credits[i].items[1].starting_at = s
        /\ credits[i].items[1].ending_before = e

\* Scenario B on the contract c at the instant n: the request ends the
\* active subscription 1 after n, adds subscription 2 of the same tier
\* starting at T2 and a recurring credit for the product starting at T2 bound
\* to subscription 1, and nothing else.
ScenarioB(c, req, n, productId) ==
    /\ \E i \in 1..Len(c.subscriptions) :
          /\ c.subscriptions[i].id = 1
          /\ SubActive(c.subscriptions[i], n)
          /\ req.add_subscriptions # <<>>
          /\ req.add_subscriptions[1] = SubData(2, T2, "p1", "MONTHLY", c.subscriptions[i].tier_id)
    /\ \A i \in 1..Len(c.subscriptions) : c.subscriptions[i].id # 2
    /\ Len(req.update_subscriptions) = 1
    /\ req.update_subscriptions[1].subscription_id = 1
    /\ req.update_subscriptions[1].ending_before > n
    /\ req.add_recurring_credits = <<RecurringData(productId, T2, 1)>>
    /\ req.add_credits = <<>>

\* C7 as stated: after scenario B the contract holds a bridge credit bound to
\* subscription 1 covering [floorToMonth(now), T2) and one bound to
\* subscription 2 covering [T2, T2 + 1 month).
C7_Original ==
    [][\A p \in Products :
          (last'.op = "edit" /\ last'.status = 200
             /\ ScenarioB(contracts[1], last'.req, now, p))
          => (/\ HasCredit(contracts'[1].credits, p, 1, startOfMonth(now), T2)
              /\ HasCredit(contracts'[1].credits, p, 2, T2, T3))]_vars

\* C7 (amended): after scenario B the contract holds a bridge credit bound to
\* subscription 1 covering [floorToHour(max(contract start,
\* floorToMonth(now))), T2) and a bridge credit covering [T2, T2 + 1 month)
\* bound to subscription 1 as well, the target of the recurring credit.
C7_ScenarioB ==
    [][\A p \in Products :
          (last'.op = "edit" /\ last'.status = 200
             /\ ScenarioB(contracts[1], last'.req, now, p))
          => (/\ HasCredit(contracts'[1].credits, p, 1,
                           startOfHour(Max(contracts[1].starting_at, startOfMonth(now))), T2)
              /\ HasCredit(contracts'[1].credits, p, 1, T2, T3))]_vars

\* C7 witness: scenario B was handled in the month before T2 on a contract
\* that started inside the first month.
C7_Witness ==
    /\ last.op = "edit"
    /\ last.at = T1 + 1
    /\ edits = 1
    /\ contracts[1].starting_at = T0 + TicksPerHour
    /\ last.req.update_subscriptions = <<[subscription_id |-> 1, ending_before |-> T2]>>
    /\ last.req.add_subscriptions = <<SubData(2, T2, "p1", "MONTHLY", "b")>>
    /\ last.req.add_recurring_credits = <<RecurringData("p2", T2, 1)>>
    /\ last.req.add_credits = <<>>
    /\ HasCredit(contracts[1].credits, "p2", 1, T1, T2)
    /\ HasCredit(contracts[1].credits, "p2", 1, T2, T3)

\* No add_recurring_credits entry of the request starts (hour-floored) after
\* the instant n with a subscription binding.
NoBridgingEntry(req, n) ==
    \A i \in 1..Len(req.add_recurring_credits) :
        \/ startOfHour(req.add_recurring_credits[i].starting_at) <= n
        \/ ~Truthy(req.add_recurring_credits[i].subscription_id)

\* The recurring credit is the one the entry asks for.
Requested(rc, entry) ==
    /\ rc.product_id = entry.product_id
    /\ rc.starting_at = startOfHour(entry.starting_at)
    /\ rc.subscription_id =
           (IF Truthy(entry.subscription_id) THEN entry.subscription_id ELSE NoId)
    /\ rc.ending_before = NoTime

\* C8: an edit none of whose add_recurring_credits entries is future and
\* bound leaves the existing credits as they are, appends only credits that
\* add_credits produces (one per schedule item, and next-period credits), and
\* appends at most one recurring credit per entry, each the requested one.
C8_BridgingOnlyWhenFutureAndBound ==
    [][(last'.op = "edit" /\ last'.status = 200 /\ last'.req.contract_id = 1
          /\ NoBridgingEntry(last'.req, now))
       => (/\ Len(contracts'[1].credits) >= Len(contracts[1].credits)
           /\ \A i \in 1..Len(contracts[1].credits) :
                  contracts'[1].credits[i] = contracts[1].credits[i]
           /\ \A j \in (Len(contracts[1].credits) + 1)..Len(contracts'[1].credits) :
                  contracts'[1].credits[j].origin \in {"add", "next"}
           /\ Len(contracts'[1].credits) - Len(contracts[1].credits)
                  <= 2 * Len(last'.req.add_credits)
           /\ Len(contracts'[1].recurring_credits) - Len(contracts[1].recurring_credits)
                  \in 0..Len(last'.req.add_recurring_credits)
           /\ \A i \in 1..Len(contracts[1].recurring_credits) :
                  contracts'[1].recurring_credits[i] = contracts[1].recurring_credits[i]
           /\ \A j \in (Len(contracts[1].recurring_credits) + 1)
                           ..Len(contracts'[1].recurring_credits) :
                  \E i \in 1..Len(last'.req.add_recurring_credits) :
                      Requested(contracts'[1].recurring_credits[j],
                                last'.req.add_recurring_credits[i]))]_vars

\* C8 witness: a swap whose recurring credit is future but unbound was
\* handled: the requested recurring credit and the add_credits credit were
\* appended, and nothing else.
C8_Witness ==
    /\ last.op = "edit"
    /\ edits = 1
    /\ last.req.update_subscriptions # <<>>
    /\ last.req.add_subscriptions # <<>>
    /\ last.req.add_recurring_credits = <<RecurringData("p1", T2, NoId)>>
    /\ last.req.add_credits # <<>>
    /\ Len(contracts[1].recurring_credits) = 1
    /\ Len(contracts[1].credits) = 1

(***************************************************************************)
(* SpecSubscriptions: one contract; edits that add a subscription (monthly *)
(* or annual, starting on or inside a month), edits that update one (with  *)
(* or without an ending_before), and the clock.                            *)
(***************************************************************************)
MaxSubscriptionEdits == 3

SubscriptionStarts == {T0, T0 + TicksPerHour + 1, T1 + 1, EarlyStart}

SubscriptionAdds ==
    {[Edit1 EXCEPT !.add_subscriptions = <<SubData(id, s, "p1", f, "a")>>] :
        id \in {1, 2}, s \in SubscriptionStarts, f \in {"MONTHLY", "ANNUAL"}}

SubscriptionUpdates ==
    {[Edit1 EXCEPT !.update_subscriptions = <<[subscription_id |-> id, ending_before |-> e]>>] :
        id \in {1, 2}, e \in {NoTime, T2}}

AddSubscription ==
    /\ edits < MaxSubscriptionEdits
    /\ \E req \in SubscriptionAdds : HandleContractEdit(req, TRUE)

UpdateSubscription ==
    /\ edits < MaxSubscriptionEdits
    /\ \E req \in SubscriptionUpdates : HandleContractEdit(req, TRUE)

SubscriptionClock == Advance({T0 + TicksPerHour, T1 + 1})

NextSubscriptions == AddSubscription \/ UpdateSubscription \/ SubscriptionClock

SpecSubscriptions == InitContract /\ [][NextSubscriptions]_vars

\* current.ending_before = next.starting_at
PeriodsMeet(sub) ==
    sub.billing_periods.current.ending_before = sub.billing_periods.next.starting_at

\* C5: in every contract, every subscription's current billing period ends
\* where its next billing period starts.
C5_CurrentEndsWhereNextStarts ==
    \A c \in 1..Len(contracts) :
        \A i \in 1..Len(contracts[c].subscriptions) :
            PeriodsMeet(contracts[c].subscriptions[i])

\* C5 witness: an update of a subscription that started inside a month was
\* handled while its current period end was still ahead, after the clock
\* had moved, and the subscription has an ending_before.
C5_Witness ==
    /\ last.op = "edit"
    /\ last.status = 200
    /\ last.req.update_subscriptions # <<>>
    /\ last.at > T0 + 1
    /\ \E i \in 1..Len(contracts[1].subscriptions) :
          LET sub == contracts[1].subscriptions[i]
          IN /\ sub.id = last.req.update_subscriptions[1].subscription_id
             /\ sub.starting_at # startOfMonth(sub.starting_at)
             /\ sub.ending_before # NoTime
             /\ sub.billing_periods.current.ending_before > last.at

\* Two recurring credits of one tuple: product, hour-floored start,
\* subscription binding or none.
SameTuple(a, b) ==
    /\ a.product_id = b.product_id
    /\ startOfHour(a.starting_at) = startOfHour(b.starting_at)
    /\ a.subscription_id = b.subscription_id

\* Active at t: no ending_before, or an ending_before strictly after t.
ActiveAt(rc, t) == rc.ending_before = NoTime \/ rc.ending_before > t

ReferenceInstants == {T0, T2, T2 + 1, T2 + TicksPerHour, T3}

\* C4 as stated: at every reference instant, no two recurring credits of one
\* tuple are both active.
C4_Original ==
    \A t \in ReferenceInstants :
        \A i, j \in 1..Len(contracts[1].recurring_credits) :
            (i < j /\ SameTuple(contracts[1].recurring_credits[i],
                                contracts[1].recurring_credits[j]))
            => ~(/\ ActiveAt(contracts[1].recurring_credits[i], t)
                 /\ ActiveAt(contracts[1].recurring_credits[j], t))

\* The tuple an add_recurring_credits entry asks for.
TupleOf(entry) ==
    [product_id |-> entry.product_id,
     starting_at |-> startOfHour(entry.starting_at),
     subscription_id |-> IF Truthy(entry.subscription_id) THEN entry.subscription_id
                         ELSE NoId]

\* The recurring credits of the tuple that have no ending_before.
Unended(rcs, tuple) ==
    {i \in 1..Len(rcs) : SameTuple(rcs[i], tuple) /\ rcs[i].ending_before = NoTime}

\* The recurring credits of the tuple, ended or not.
OfTuple(rcs, tuple) == {i \in 1..Len(rcs) : SameTuple(rcs[i], tuple)}

\* C9 as stated: an edit that adds recurring credits leaves, for the tuple of
\* each entry, at most one record without ending_before if there was at most
\* one before, and appends no record of the tuple when one without
\* ending_before is on file.
C9_Original ==
    [][(edits' = edits + 1 /\ last'.status = 200 /\ last'.req.contract_id = 1
          /\ last'.req.update_recurring_credits = <<>>)
       => \A i \in 1..Len(last'.req.add_recurring_credits) :
              LET tuple == TupleOf(last'.req.add_recurring_credits[i])
              IN /\ Cardinality(Unended(contracts'[1].recurring_credits, tuple))
                        <= Max(1, Cardinality(Unended(contracts[1].recurring_credits, tuple)))
                 /\ Unended(contracts[1].recurring_credits, tuple) # {}
                        => OfTuple(contracts'[1].recurring_credits, tuple)
                               = OfTuple(contracts[1].recurring_credits, tuple)]_vars

\* An edit of contract 1 answered with success that adds one one-time credit
\* with one schedule item, and no recurring credit.
AddsOneCredit(req, status) ==
    /\ status = 200
    /\ req.contract_id = 1
    /\ req.add_recurring_credits = <<>>
    /\ Len(req.add_credits) = 1
    /\ req.add_credits[1].has_items
    /\ Len(req.add_credits[1].items) = 1

\* The edit appended the credit itself and one next-period credit with the
\* amount of the schedule item.
AppendedWithNext(before, after, creditData) ==
    /\ Len(after) = Len(before) + 2
    /\ \A i \in 1..Len(before) : after[i] = before[i]
    /\ after[Len(before) + 1].origin = "add"
    /\ after[Len(before) + 1].product_id = creditData.product_id
    /\ after[Len(before) + 1].items = creditData.items
    /\ after[Len(before) + 2].origin = "next"
    /\ after[Len(before) + 2].product_id = creditData.product_id
    /\ Len(after[Len(before) + 2].items) = 1
    /\ after[Len(before) + 2].items[1].amount = creditData.items[1].amount

\* The edit appended the credit itself and nothing else.
AppendedAlone(before, after, creditData) ==
    /\ Len(after) = Len(before) + 1
    /\ \A i \in 1..Len(before) : after[i] = before[i]
    /\ after[Len(before) + 1].origin = "add"
    /\ after[Len(before) + 1].product_id = creditData.product_id
    /\ after[Len(before) + 1].items = creditData.items

\* C10 as stated: with an active recurring credit for the product starting
\* at the schedule item's ending_before, the credit and one next-period
\* credit of the same amount are appended; with no recurring credit starting
\* at that instant, the credit alone.
C10_Original ==
    [][(edits' = edits + 1 /\ AddsOneCredit(last'.req, last'.status))
       => LET creditData == last'.req.add_credits[1]
              endingBefore == creditData.items[1].ending_before
              rcs == contracts[1].recurring_credits
          IN /\ (\E i \in 1..Len(rcs) :
                    /\ rcs[i].product_id = creditData.product_id
                    /\ rcs[i].starting_at = endingBefore
                    /\ ActiveAt(rcs[i], now))
                 => AppendedWithNext(contracts[1].credits, contracts'[1].credits, creditData)
             /\ (\A i \in 1..Len(rcs) : rcs[i].starting_at # endingBefore)
                 => AppendedAlone(contracts[1].credits, contracts'[1].credits, creditData)]_vars

\* The subscription of the credit and the binding of the recurring credit
\* are compatible: one of them is absent, or they are the same.
Compatible(rc, creditData) ==
    \/ ~Truthy(creditData.subscription_id)
    \/ ~Truthy(rc.subscription_id)
    \/ rc.subscription_id = creditData.subscription_id

\* A recurring credit for the product, ended or not, with a compatible
\* binding, starts in the hour of the instant.
StartsInHourOf(rcs, creditData, endingBefore) ==
    \E i \in 1..Len(rcs) :
        /\ rcs[i].product_id = creditData.product_id
        /\ startOfHour(rcs[i].starting_at) = startOfHour(endingBefore)
        /\ Compatible(rcs[i], creditData)

\* C10: an edit that adds a one-time credit with one schedule item appends
\* the credit and one next-period credit of the same amount when a recurring
\* credit for the product with a compatible binding starts in the hour of
\* the item's ending_before, and the credit alone otherwise.
C10_NextPeriodCredit ==
    [][(edits' = edits + 1 /\ AddsOneCredit(last'.req, last'.status))
       => LET creditData == last'.req.add_credits[1]
          IN IF StartsInHourOf(contracts'[1].recurring_credits, creditData,
                               creditData.items[1].ending_before)
             THEN AppendedWithNext(contracts[1].credits, contracts'[1].credits, creditData)
             ELSE AppendedAlone(contracts[1].credits, contracts'[1].credits, creditData)]_vars

\* C10 witness: a one-time credit whose item ends inside the hour in which
\* an ended recurring credit bound to subscription 1 starts was added, and
\* the next-period credit with the amount of the item follows it.
C10_Witness ==
    /\ edits = MaxRecurringEdits
    /\ AddsOneCredit(last.req, last.status)
    /\ last.req.add_credits[1].items[1].ending_before = T2 + 1
    /\ \E i \in 1..Len(contracts[1].recurring_credits) :
          /\ contracts[1].recurring_credits[i].product_id = last.req.add_credits[1].product_id
          /\ contracts[1].recurring_credits[i].subscription_id = 1
          /\ contracts[1].recurring_credits[i].ending_before = T2
    /\ Len(contracts[1].recurring_credits) = 1
    /\ Len(contracts[1].credits) = 2
    /\ contracts[1].credits[1].origin = "add"
    /\ contracts[1].credits[2].origin = "next"
    /\ contracts[1].credits[2].items[1].amount = last.req.add_credits[1].items[1].amount

\* The number of the UTC month an instant lies in (12 * year + month).
MonthOf(t) == t \div TicksPerMonth

\* C11: every subscription's current billing period runs from the first
\* instant of its start's UTC month to that instant plus one period (1 month
\* for MONTHLY, 12 for ANNUAL), and its next billing period covers the
\* period after that.
C11_Original ==
    \A i \in 1..Len(contracts[1].subscriptions) :
        LET sub == contracts[1].subscriptions[i]
            k == MonthOf(sub.starting_at)
            p == IF sub.billing_frequency = "MONTHLY" THEN 1 ELSE 12
        IN sub.billing_periods =
               [current |-> [starting_at |-> MonthStart(k),
                             ending_before |-> MonthStart(k + p)],
                next |-> [starting_at |-> MonthStart(k + p),
                          ending_before |-> MonthStart(k + 2 * p)]]

\* The positions of a label in a sequence of labels.
PositionsOf(labels, label) == {i \in 1..Len(labels) : labels[i] = label}

\* The events of a type in a sequence of events.
EventsOfType(events, type) == {i \in 1..Len(events) : events[i].type = type}

\* C12: a successful edit emits exactly one contract.updated event, as the
\* last thing it does: after the uniqueness key (if any) and the contract
\* were persisted and after its payment-gate event (if any); an edit that is
\* rejected or fails emits no contract.updated; a successful creation emits
\* exactly one contract.created.
C12_UpdatedEmittedLast ==
    /\ (last.op = "edit" /\ last.status = 200) =>
           /\ Cardinality(EventsOfType(last.events, "contract.updated")) = 1
           /\ last.events[Len(last.events)] =
                  ContractEvent(contracts[last.req.contract_id], "contract.updated")
           /\ PositionsOf(last.effects, "contract.updated") = {Len(last.effects)}
           /\ PositionsOf(last.effects, "updateContractV2") # {}
           /\ last.req.uniqueness_key # NoKey =>
                  /\ PositionsOf(last.effects, "addUniquenessKey") # {}
                  /\ last.req.uniqueness_key \in uniquenessKeys
           /\ TypesOf(last.events) =
                  [i \in 1..Len(last.events) |->
                      last.effects[Len(last.effects) - Len(last.events) + i]]
    /\ (last.op = "edit" /\ last.status # 200) =>
           /\ EventsOfType(last.events, "contract.updated") = {}
           /\ PositionsOf(last.effects, "contract.updated") = {}
    /\ (last.op = "create" /\ last.status = 201) =>
           /\ Cardinality(EventsOfType(last.events, "contract.created")) = 1
           /\ PositionsOf(last.effects, "contract.created") = {Len(last.effects)}

\* A successful edit with a uniqueness key and a payment-gate event.
C12_Witness ==
    /\ last.op = "edit"
    /\ last.status = 200
    /\ last.req.uniqueness_key # NoKey
    /\ EventsOfType(last.events, "payment_gate.payment_status") # {}
    /\ Len(last.events) >= 3

\* No event was posted twice to a target.
SentAtMostOnce(dl) ==
    \A i, j \in 1..Len(dl) :
        (dl[i].event_no = dl[j].event_no /\ dl[i].target = dl[j].target) => i = j

\* C13: emitting events neither blocks nor fails an edit. The response to an
\* edit and the store after it are what the handler computes from the store
\* and the request, whatever became of the POSTs started so far; the end of a
\* POST, good or bad, changes neither store nor response; and no event is
\* posted to a target a second time.
C13_EmissionApartFromEdit ==
    [][/\ edits' = edits + 1 =>
              LET r == EditResult(contracts, uniquenessKeys, balances, idCounter,
                                  last'.req, now)
              IN /\ last'.status = r.status
                 /\ contracts' = r.contracts
                 /\ uniquenessKeys' = r.keys
                 /\ balances' = r.balances
                 /\ \A i \in 1..Len(deliveries) : deliveries'[i] = deliveries[i]
       /\ (\E i \in 1..Len(deliveries) : deliveries'[i] # deliveries[i]) =>
              UNCHANGED <<customers, contracts, uniquenessKeys, balances, idCounter, last>>
       /\ SentAtMostOnce(deliveries')]_vars

\* An edit was answered with success and its events were posted while a POST
\* of an earlier event had failed and another had not ended.
C13_Witness ==
    /\ last.op = "edit"
    /\ last.status = 200
    /\ \E i, j, k \in 1..Len(deliveries) :
          /\ deliveries[i].state = "failed"
          /\ deliveries[j].state = "pending"
          /\ deliveries[j].event_no = deliveries[i].event_no
          /\ deliveries[k].event_no > deliveries[i].event_no
          /\ deliveries[k].event.type = "contract.updated"

\* The orders in which n requests can be handled.
Orders(n) == {f \in [1..n -> 1..n] : \A i, j \in 1..n : f[i] = f[j] => i = j}

\* The store after the requests order[1..k] of those in flight were handled
\* one after the other, starting from the store s.
RECURSIVE HandledInOrder(_, _, _)
HandledInOrder(s, order, k) ==
    IF k = 0 THEN s
    ELSE LET before == HandledInOrder(s, order, k - 1)
             r == EditResult(before.contracts, before.keys, before.balances, before.ctr,
                             inflight[order[k]].req, now)
         IN [contracts |-> r.contracts, keys |-> r.keys, balances |-> r.balances,
             ctr |-> r.ctr]

\* The stores the serial orders of the requests in flight lead to.
SerialOutcomes ==
    {HandledInOrder(inflight[1].seen, order, Len(inflight)) : order \in Orders(Len(inflight))}

\* Two or more requests were in flight together (each was submitted to the
\* same store, before any of them was handled) and all have been handled.
HandledTogether ==
    /\ Len(inflight) >= 2
    /\ \A i \in 1..Len(inflight) :
          inflight[i].handled /\ inflight[i].seen = inflight[1].seen

\* The store is one that no serial order of the requests leads to.
Raced == HandledTogether /\ StoreNow \notin SerialOutcomes

EditSucceeds == edits' = edits + 1 /\ last'.status = 200

\* The configuration the contract of the request had before the edit.
ConfigBefore(req) == contracts[req.contract_id].prepaid_balance_threshold_configuration

\* The request adds a configuration with a commit.
AddsCommit(req) ==
    /\ req.add_prepaid_balance_threshold_configuration.present
    /\ req.add_prepaid_balance_threshold_configuration.has_commit

\* The request updates the configuration, asks for a payment status in the
\* update, and the updated configuration has a commit (its own or the one
\* on file).
UpdateAsksForStatus(req) ==
    LET update == req.update_prepaid_balance_threshold_configuration
    IN /\ update.present
       /\ "mock_payment_status" \in update.fields
       /\ update.mock_payment_status # ""
       /\ "commit" \in update.fields \/ (ConfigBefore(req).present /\ ConfigBefore(req).has_commit)

\* The request asks for a payment status, in its add or in its update.
AsksForStatus(req) ==
    \/ /\ req.add_prepaid_balance_threshold_configuration.present
       /\ req.add_prepaid_balance_threshold_configuration.mock_payment_status # ""
    \/ /\ req.update_prepaid_balance_threshold_configuration.present
       /\ "mock_payment_status" \in req.update_prepaid_balance_threshold_configuration.fields
       /\ req.update_prepaid_balance_threshold_configuration.mock_payment_status # ""

\* C15 as amended: a successful edit emits a payment-gate event exactly when
\* it adds a configuration with a commit (with or without a mock payment
\* status) or its update asks for a payment status and the updated
\* configuration has a commit; an edit that emits none sets no balance.
C15_GateNeedsCommit ==
    [][EditSucceeds =>
          /\ (EventsOfType(last'.events, "payment_gate.payment_status") # {})
                 <=> (AddsCommit(last'.req) \/ UpdateAsksForStatus(last'.req))
          /\ EventsOfType(last'.events, "payment_gate.payment_status") = {} =>
                 balances' = balances]_vars

\* C15 as stated: a payment-gate event only with a commit and a requested
\* mock payment status; with a commit and no mock payment status no event
\* and no balance.
C15_Original ==
    [][EditSucceeds =>
          /\ EventsOfType(last'.events, "payment_gate.payment_status") # {} =>
                 /\ AddsCommit(last'.req) \/ UpdateAsksForStatus(last'.req)
                 /\ AsksForStatus(last'.req)
          /\ (AddsCommit(last'.req) /\ ~AsksForStatus(last'.req)) =>
                 /\ EventsOfType(last'.events, "payment_gate.payment_status") = {}
                 /\ balances' = balances]_vars

\* An update asked for a payment status on a configuration with a commit and
\* got a payment-gate event, after an edit that changed the commit without
\* asking and got none.
C15_Witness ==
    /\ last.op = "edit"
    /\ last.status = 200
    /\ edits = 2
    /\ ~last.req.add_prepaid_balance_threshold_configuration.present
    /\ "commit" \notin last.req.update_prepaid_balance_threshold_configuration.fields
    /\ EventsOfType(last.events, "payment_gate.payment_status") # {}
    /\ balances[<<"cus_1", "p2">>] = 0

\* The payment-gate events among the events.
GateEventsOf(events) ==
    [i \in EventsOfType(events, "payment_gate.payment_status") |-> events[i]]

\* C16: a successful edit that adds a threshold configuration with a commit
\* emits exactly one payment-gate event, for the contract and customer of
\* the edit, with status failed if the add's mock_payment_status is failed
\* and paid otherwise.
C16_AddWithCommitEmitsGate ==
    [][(EditSucceeds /\ AddsCommit(last'.req)) =>
          LET req == last'.req
              status == req.add_prepaid_balance_threshold_configuration.mock_payment_status
              gates == GateEventsOf(last'.events)
          IN /\ Cardinality(DOMAIN gates) = 1
             /\ \A i \in DOMAIN gates :
                   /\ gates[i].contract_id = req.contract_id
                   /\ gates[i].customer_id = req.customer_id
                   /\ gates[i].payment_status \in {"paid", "failed"}
                   /\ gates[i].payment_status = "failed" <=> status = "failed"]_vars

\* An edit whose update asked for failed and whose add, with a commit, asked
\* for nothing has emitted one event, paid; and an add that asked for failed
\* has emitted failed before.
C16_Witness ==
    /\ last.op = "edit"
    /\ last.status = 200
    /\ AddsCommit(last.req)
    /\ last.req.update_prepaid_balance_threshold_configuration.present
    /\ last.req.update_prepaid_balance_threshold_configuration.mock_payment_status = "failed"
    /\ \E i \in 1..Len(last.events) :
          /\ last.events[i].type = "payment_gate.payment_status"
          /\ last.events[i].payment_status = "paid"
    /\ contracts[2].prepaid_balance_threshold_configuration.present
    /\ balances[<<"cus_2", "p1">>] = 5

\* The amount a paid gate recharges to: recharge_to_amount, else
\* threshold_amount, else 0.
PaidAmount(config) ==
    IF config.recharge_to_amount # NoAmount THEN config.recharge_to_amount
    ELSE IF config.threshold_amount # NoAmount THEN config.threshold_amount
    ELSE 0

\* The amount a failed gate leaves: the lesser of recharge_to_amount and
\* threshold_amount, an absent amount counting as 0.
FailedAmount(config) ==
    LET recharge == IF config.recharge_to_amount # NoAmount THEN config.recharge_to_amount
                    ELSE 0
        threshold == IF config.threshold_amount # NoAmount THEN config.threshold_amount
                     ELSE 0
    IN IF recharge <= threshold THEN recharge ELSE threshold

\* C17: when an edit recorded a payment-gate status and the configuration it
\* leaves has a commit product, the customer's balance for that product is
\* set, before the payment-gate event is emitted, to the recharge amount
\* (paid) or to the lesser of recharge and threshold amount (failed), and no
\* other balance changes.
C17_GateSetsBalance ==
    [][EditSucceeds =>
          LET req == last'.req
              config == contracts'[req.contract_id].prepaid_balance_threshold_configuration
              gates == GateEventsOf(last'.events)
          IN (DOMAIN gates # {} /\ config.has_commit /\ config.commit_product # NoProduct) =>
                 \A i \in DOMAIN gates :
                    /\ balances' =
                           [balances EXCEPT ![<<req.customer_id, config.commit_product>>] =
                               IF gates[i].payment_status = "paid" THEN PaidAmount(config)
                               ELSE FailedAmount(config)]
                    /\ \A g \in PositionsOf(last'.effects, "payment_gate.payment_status") :
                          \E b \in PositionsOf(last'.effects, "setBalance") : b < g]_vars

\* A failed gate has left the balance of p1 at the threshold, below the
\* recharge amount, and the balance an earlier paid gate set for p2 is
\* unchanged.
C17_Witness ==
    /\ last.op = "edit"
    /\ last.status = 200
    /\ \E i \in 1..Len(last.events) :
          /\ last.events[i].type = "payment_gate.payment_status"
          /\ last.events[i].payment_status = "failed"
    /\ contracts[last.req.contract_id].prepaid_balance_threshold_configuration.recharge_to_amount = 8
    /\ balances[<<"cus_1", "p1">>] = 5
    /\ balances[<<"cus_1", "p2">>] = 3

\* The low-balance alerts among the events that are for the contract.
AlertsOf(events, contractId) ==
    {i \in EventsOfType(events, "alerts.low_remaining_contract_credit_and_commit_balance_reached") :
        events[i].contract_id = contractId}

\* The edit of the step set a balance: the customer, the product and the
\* amount.
BalanceSet ==
    LET req == last'.req
        config == contracts'[req.contract_id].prepaid_balance_threshold_configuration
    IN [customer |-> req.customer_id, product |-> config.commit_product,
        amount |-> balances'[<<req.customer_id, config.commit_product>>]]

ConfigOfAdd(add) ==
    [present |-> TRUE, is_enabled |-> add.is_enabled,
     threshold_amount |-> add.threshold_amount,
     recharge_to_amount |-> add.recharge_to_amount,
     payment_gate_config |-> add.payment_gate_config, has_commit |-> add.has_commit,
     commit_product |-> add.commit_product, mock_payment_status |-> ""]

\* The configuration an update is applied to: the one on file, or the
\* defaults false, 0, 0.
ConfigToPatch(req) ==
    IF ConfigBefore(req).present THEN ConfigBefore(req)
    ELSE [present |-> TRUE, is_enabled |-> FALSE, threshold_amount |-> 0,
          recharge_to_amount |-> 0, payment_gate_config |-> "", has_commit |-> FALSE,
          commit_product |-> NoProduct, mock_payment_status |-> ""]

\* C19: add_prepaid_balance_threshold_configuration replaces the stored
\* configuration by the five supplied fields, no field of the previous one
\* surviving; update_prepaid_balance_threshold_configuration alone changes
\* the fields it names and leaves every other field at its prior value, or
\* at the defaults false, 0, 0 when there was no configuration.
C19_AddReplacesUpdatePatches ==
    [][EditSucceeds =>
          LET req == last'.req
              add == req.add_prepaid_balance_threshold_configuration
              update == req.update_prepaid_balance_threshold_configuration
              after == contracts'[req.contract_id].prepaid_balance_threshold_configuration
              prior == ConfigToPatch(req)
          IN /\ add.present => after = ConfigOfAdd(add)
             /\ (update.present /\ ~add.present) =>
                   /\ after.present
                   /\ after.is_enabled = IF "is_enabled" \in update.fields
                                         THEN update.is_enabled ELSE prior.is_enabled
                   /\ after.threshold_amount = IF "threshold_amount" \in update.fields
                                               THEN update.threshold_amount
                                               ELSE prior.threshold_amount
                   /\ after.recharge_to_amount = IF "recharge_to_amount" \in update.fields
                                                 THEN update.recharge_to_amount
                                                 ELSE prior.recharge_to_amount
                   /\ "payment_gate_config" \notin update.fields =>
                          after.payment_gate_config = prior.payment_gate_config
                   /\ "commit" \notin update.fields =>
                          /\ after.has_commit = prior.has_commit
                          /\ after.commit_product = prior.commit_product
                   /\ "commit" \in update.fields =>
                          /\ after.has_commit
                          /\ after.commit_product = update.commit_product
                   /\ after.mock_payment_status = IF "mock_payment_status" \in update.fields
                                                  THEN update.mock_payment_status
                                                  ELSE prior.mock_payment_status
             /\ (~update.present /\ ~add.present) => after = ConfigBefore(req)]_vars

\* An add without commit has replaced the configuration of contract 1, which
\* had a commit for p1 (its payment gate had set the balance of p1): no
\* commit is left.
C19_Witness ==
    /\ last.op = "edit"
    /\ last.status = 200
    /\ edits = 2
    /\ last.req.contract_id = 1
    /\ last.req.add_prepaid_balance_threshold_configuration.present
    /\ ~last.req.add_prepaid_balance_threshold_configuration.has_commit
    /\ ~contracts[1].prepaid_balance_threshold_configuration.has_commit
    /\ balances[<<"cus_1", "p1">>] = 0
    /\ contracts[2].prepaid_balance_threshold_configuration = NoConfig

\* An update has patched one field of a configuration that an add had
\* stored: the enable flag is off, the amounts and the commit are the add's.
C19_WitnessUpdate ==
    /\ last.op = "edit"
    /\ last.status = 200
    /\ ~last.req.add_prepaid_balance_threshold_configuration.present
    /\ last.req.update_prepaid_balance_threshold_configuration.fields = {"is_enabled"}
    /\ ~contracts[1].prepaid_balance_threshold_configuration.is_enabled
    /\ contracts[1].prepaid_balance_threshold_configuration.threshold_amount = 5
    /\ contracts[1].prepaid_balance_threshold_configuration.commit_product = "p1"

\* The ids of the entries of a collection, in order.
IdsOf(entries) == [i \in 1..Len(entries) |-> entries[i].id]

\* before is the beginning of after.
StartsWith(after, before) ==
    /\ Len(after) >= Len(before)
    /\ \A i \in 1..Len(before) : after[i] = before[i]

\* C20: an edit removes nothing from a contract. Every subscription, credit,
\* recurring credit and override the contract had before the edit is there
\* after it, with the same id and at the same place, additions coming after
\* them; and an override that was there is unchanged. This holds of an edit
\* that fails midway as well.
C20_NothingRemoved ==
    [][edits' = edits + 1 =>
          /\ Len(contracts') >= Len(contracts)
          /\ \A c \in 1..Len(contracts) :
                /\ contracts'[c].id = contracts[c].id
                /\ StartsWith(IdsOf(contracts'[c].subscriptions),
                              IdsOf(contracts[c].subscriptions))
                /\ StartsWith(IdsOf(contracts'[c].credits), IdsOf(contracts[c].credits))
                /\ StartsWith(IdsOf(contracts'[c].recurring_credits),
                              IdsOf(contracts[c].recurring_credits))
                /\ StartsWith(contracts'[c].overrides, contracts[c].overrides)]_vars

\* After three edits the contract holds an ended subscription, an archived
\* credit, a recurring credit and two overrides.
C20_Witness ==
    /\ edits = MaxCollectionEdits
    /\ last.status = 200
    /\ \E i \in 1..Len(contracts[1].subscriptions) :
          contracts[1].subscriptions[i].ending_before # NoTime
    /\ \E i \in 1..Len(contracts[1].credits) : contracts[1].credits[i].archived_at # NoTime
    /\ contracts[1].recurring_credits # <<>>
    /\ Len(contracts[1].overrides) >= 2

(***************************************************************************)
(* Ownership of records.                                                   *)
(***************************************************************************)
\* The identities a contract holds: the generated ids of its subscriptions,
\* credits, recurring credits and overrides, and the custom_fields objects
\* of its credits.  (A temporary_id is a value the caller chose, and two
\* contracts may each hold a subscription that carries it.)
RecordsOf(c) ==
    {x \in {c.subscriptions[i].id : i \in 1..Len(c.subscriptions)}
           \cup {c.credits[i].id : i \in 1..Len(c.credits)}
           \cup {c.credits[i].cf : i \in 1..Len(c.credits)}
           \cup {c.recurring_credits[i].id : i \in 1..Len(c.recurring_credits)}
           \cup {c.overrides[i].id : i \in 1..Len(c.overrides)} : x < 0}

NoSharedRecord(cs) ==
    \A i, j \in 1..Len(cs) : i # j => RecordsOf(cs[i]) \cap RecordsOf(cs[j]) = {}

OthersUnchanged(before, after, id) ==
    /\ Len(after) = Len(before)
    /\ \A i \in 1..Len(before) : i # id => after[i] = before[i]

\* C21: an edit of one contract, whatever its outcome, leaves every other
\* contract as it was (subscriptions, credits, recurring credits, overrides
\* and threshold configuration), and no generated record or custom_fields
\* object is held by two contracts.
C21_OtherContractsUntouched ==
    [][/\ NoSharedRecord(contracts')
       /\ edits' = edits + 1 => OthersUnchanged(contracts, contracts', last'.req.contract_id)]_vars

\* Both contracts hold a subscription with the id 1; the last edit ended the
\* one of contract 1 and added credits to it, and contract 2 still holds its
\* own, unended.
C21_Witness ==
    /\ last.op = "edit" /\ last.status = 200 /\ last.req.contract_id = 1
    /\ last.req.update_subscriptions # <<>>
    /\ Len(contracts[1].subscriptions) = 1 /\ Len(contracts[2].subscriptions) = 1
    /\ contracts[1].subscriptions[1].id = 1 /\ contracts[2].subscriptions[1].id = 1
    /\ contracts[1].subscriptions[1].ending_before = T2
    /\ contracts[2].subscriptions[1].ending_before = NoTime
    /\ contracts[1].customer_id = contracts[2].customer_id
    /\ contracts[1].recurring_credits # <<>>
    /\ contracts[2].recurring_credits = <<>> /\ contracts[2].credits = <<>>

(***************************************************************************)
(* Recurring credits under renormalization of the start.                   *)
(***************************************************************************)
\* The first instant of the hour of t.
HourFloor(t) == t - (t % TicksPerHour)

\* The recurring credits of contract 1 after an edit that adds one recurring
\* credit for product p with start t and binding b to the present store.
RecurringAfterAdd(p, t, b) ==
    EditResult(contracts, uniquenessKeys, balances, idCounter,
               [Edit1 EXCEPT !.add_recurring_credits = <<RecurringData(p, t, b)>>],
               now).contracts[1].recurring_credits

\* The edit of this step adds one recurring credit and nothing else.
AddsOneRecurring ==
    /\ EditSucceeds
    /\ Len(last'.req.add_recurring_credits) = 1
    /\ last'.req.update_recurring_credits = <<>>

\* The verdict of the step (a record was appended or not) is the verdict the
\* same store gives to every start of the same hour.
SameVerdictInHour ==
    LET d == last'.req.add_recurring_credits[1]
    IN \A t \in RenormalizeStarts :
          HourFloor(t) = HourFloor(d.starting_at)
              => Len(RecurringAfterAdd(d.product_id, t, d.subscription_id))
                     = Len(contracts'[1].recurring_credits)

\* A record the step appended starts at the first instant of the hour asked.
StoresHourFloor ==
    LET d == last'.req.add_recurring_credits[1]
        before == contracts[1].recurring_credits
        after == contracts'[1].recurring_credits
    IN Len(after) > Len(before)
          => after[Len(before) + 1].starting_at = HourFloor(d.starting_at)

\* The verdict half alone.
RenormalizedVerdict == [][AddsOneRecurring => SameVerdictInHour]_vars

\* C22: two starts of one UTC hour get the same duplicate/new verdict from
\* the same contract, and the record stored starts at the first instant of
\* that hour.
C22_Original == [][AddsOneRecurring => SameVerdictInHour /\ StoresHourFloor]_vars

\* No recurring credit the contract holds for the product and the hour of
\* the entry has the entry's binding.
BindingDiffersFromAll(recurring_credits, d) ==
    \A i \in 1..Len(recurring_credits) :
        (/\ recurring_credits[i].product_id = d.product_id
         /\ normalizeRFC3339(recurring_credits[i].starting_at) = startOfHour(d.starting_at))
            => recurring_credits[i].subscription_id # d.subscription_id

\* C23: a recurring credit whose binding (a subscription id, or none) differs
\* from that of every recurring credit of the contract with the same product
\* and start is appended as a new record: the contract then holds one more,
\* with the product, the start and the binding of the entry.
C23_OtherBindingAppends ==
    [][AddsOneRecurring =>
         LET d == last'.req.add_recurring_credits[1]
             before == contracts[1].recurring_credits
             after == contracts'[1].recurring_credits
         IN BindingDiffersFromAll(before, d)
               => /\ Len(after) > Len(before)
                  /\ SubSeq(after, 1, Len(before)) = before
                  /\ after[Len(before) + 1] =
                         NewRecurringCredit(idCounter, d.product_id,
                                            startOfHour(d.starting_at), d.subscription_id)]_vars

\* The contract holds three recurring credits for p1 starting at T2: one
\* unbound, one bound to subscription 1, and the one the last edit added,
\* bound to subscription 2.
C23_Witness ==
    /\ last.op = "edit" /\ last.status = 200
    /\ Len(last.req.add_recurring_credits) = 1
    /\ last.req.add_recurring_credits[1].subscription_id = 2
    /\ Len(contracts[1].recurring_credits) = 3
    /\ \A i \in 1..3 : /\ contracts[1].recurring_credits[i].product_id = "p1"
                       /\ contracts[1].recurring_credits[i].starting_at = T2
                       /\ contracts[1].recurring_credits[i].ending_before = NoTime
    /\ contracts[1].recurring_credits[1].subscription_id = NoId
    /\ contracts[1].recurring_credits[2].subscription_id = 1
    /\ contracts[1].recurring_credits[3].subscription_id = 2

(***************************************************************************)
(* Retrieval.                                                              *)
(***************************************************************************)
\* The step is a retrieval (every step of SpecRetrieve writes the response).
Retrieves == last'.op = "get"

\* The request before this step was a creation answered with success; the id
\* it returned is that of the newest contract.
JustCreated == last.op = "create" /\ last.status = 201

\* C24: a retrieval of an existing contract with the id of its owner returns
\* the stored contract, and with any other customer id returns not-found;
\* retrieved right after its creation, the contract has the id the creation
\* returned, the customer and start of the request, and empty subscriptions,
\* credits, recurring credits and overrides.
C24_OwnerRetrieves ==
    [][Retrieves /\ last'.req.contract_id \in 1..Len(contracts) =>
         LET id == last'.req.contract_id
             cust == last'.req.customer_id
         IN /\ cust = contracts[id].customer_id
                  => last'.status = 200 /\ last'.data = contracts[id]
            /\ cust # contracts[id].customer_id /\ cust # NoCustomer
                  => last'.status = 404 /\ last'.data = NoData
            /\ JustCreated /\ id = Len(contracts) /\ cust = last.req.customer_id
                  => /\ last'.status = 200
                     /\ last'.data.id = id
                     /\ last'.data.customer_id = last.req.customer_id
                     /\ last'.data.starting_at = last.req.starting_at
                     /\ last'.data.subscriptions = <<>> /\ last'.data.credits = <<>>
                     /\ last'.data.recurring_credits = <<>>
                     /\ last'.data.overrides = <<>>]_vars

\* Contract 2 of customer 2 was retrieved with the id of customer 1, who owns
\* contract 1, and the answer was not-found.
C24_Witness ==
    /\ last.op = "get" /\ last.status = 404
    /\ Len(contracts) = 2
    /\ last.req.contract_id = 2 /\ last.req.customer_id = "cus_1"
    /\ contracts[1].customer_id = "cus_1" /\ contracts[2].customer_id = "cus_2"

(***************************************************************************)
(* Added subscriptions.                                                    *)
(***************************************************************************)
\* What the next retrieval by the owner shows of the contract the step
\* edited.
RetrievedAfter ==
    GetResult(contracts', [contract_id |-> last'.req.contract_id,
                           customer_id |-> last'.req.customer_id]).data

\* The subscription sub is the entry subData as added: the temporary id when
\* one is supplied, the supplied start, no ending_before, and the quantity
\* asked, or 1 when none is asked.
AddedAsAsked(sub, subData) ==
    /\ Truthy(subData.temporary_id) => sub.id = subData.temporary_id
    /\ sub.starting_at = subData.starting_at
    /\ sub.ending_before = NoTime
    /\ sub.quantity = IF subData.initial_quantity # NoAmount THEN subData.initial_quantity
                      ELSE 1

\* The same, with the initial quantity 0 read as none.
AddedAsCoded(sub, subData) ==
    /\ Truthy(subData.temporary_id) => sub.id = subData.temporary_id
    /\ sub.starting_at = subData.starting_at
    /\ sub.ending_before = NoTime
    /\ sub.quantity = IF subData.initial_quantity \notin {NoAmount, 0}
                      THEN subData.initial_quantity ELSE 1

\* The k entries of add_subscriptions are k more subscriptions of the edited
\* contract, each as the relation asks, and the next retrieval shows them.
SubscriptionsAdded(AsAsked(_, _)) ==
    LET id == last'.req.contract_id
        adds == last'.req.add_subscriptions
        before == contracts[id].subscriptions
        after == contracts'[id].subscriptions
    IN /\ Len(after) = Len(before) + Len(adds)
       /\ \A i \in 1..Len(adds) : AsAsked(after[Len(before) + i], adds[i])
       /\ RetrievedAfter.subscriptions = after

\* What the handler does for every entry: as C25 says, but for the quantity 0.
SubscriptionsAddedAsCoded == [][EditSucceeds => SubscriptionsAdded(AddedAsCoded)]_vars

\* C25: a successful edit with k add_subscriptions entries adds exactly k
\* subscriptions; each has the temporary id when one is supplied, the
\* supplied start, no ending_before and the initial quantity of the entry, 1
\* when the entry has none, and the next retrieval shows them.
C25_Original == [][EditSucceeds => SubscriptionsAdded(AddedAsAsked)]_vars

(***************************************************************************)
(* An edit that throws.                                                    *)
(***************************************************************************)
\* The position of the first add_subscriptions entry without
\* subscription_rate, 0 when every entry has one.
FirstUnrated(adds) ==
    IF \E i \in 1..Len(adds) : ~adds[i].has_rate
    THEN CHOOSE i \in 1..Len(adds) : ~adds[i].has_rate /\ \A j \in 1..(i - 1) : adds[j].has_rate
    ELSE 0

\* The edit of this step passed the precondition checks and one of its
\* add_subscriptions entries has no subscription_rate.
ThrowsMidway ==
    /\ edits' = edits + 1
    /\ FirstUnrated(last'.req.add_subscriptions) # 0

\* The steps that ran before the throw are in the stored contract: each
\* update_subscriptions entry ended the first subscription of its id, and
\* the entries before the one without subscription_rate were added.
EarlierStepsRemain ==
    LET req == last'.req
        before == contracts[req.contract_id].subscriptions
        after == contracts'[req.contract_id].subscriptions
        added == FirstUnrated(req.add_subscriptions) - 1
    IN /\ Len(after) = Len(before) + added
       /\ \A i \in 1..added : AddedAsCoded(after[Len(before) + i], req.add_subscriptions[i])
       /\ \A u \in 1..Len(req.update_subscriptions) :
             \A i \in 1..Len(before) :
                 (/\ before[i].id = req.update_subscriptions[u].subscription_id
                  /\ \A j \in 1..(i - 1) : before[j].id # before[i].id)
                     => after[i].ending_before = req.update_subscriptions[u].ending_before
       /\ RetrievedAfter.subscriptions = after

\* C26: an edit that throws after the precondition checks is answered with
\* a server failure (500); what its earlier steps wrote stays in the stored
\* contract; its uniqueness key is not registered; nothing is emitted or
\* delivered, no balance is set and the later steps have not run.
C26_ThrowKeepsEarlierSteps ==
    [][ThrowsMidway =>
         /\ last'.status = 500
         /\ EarlierStepsRemain
         /\ uniquenessKeys' = uniquenessKeys
         /\ last'.events = <<>> /\ last'.effects = <<>>
         /\ deliveries' = deliveries
         /\ balances' = balances
         /\ contracts'[last'.req.contract_id].prepaid_balance_threshold_configuration
                = contracts[last'.req.contract_id].prepaid_balance_threshold_configuration]_vars

\* The last edit carried the key 1, ended subscription 1, added subscription
\* 2 and threw on its next entry: it was answered 500, the contract holds
\* subscription 1 ended and subscription 2, the key is not registered and
\* the threshold configuration the edit carried was not stored.
C26_Witness ==
    /\ last.op = "edit" /\ last.status = 500
    /\ last.req.uniqueness_key = 1 /\ 1 \notin uniquenessKeys
    /\ last.req.update_subscriptions # <<>>
    /\ last.req.contract_id = 1
    /\ Len(contracts[1].subscriptions) = 2
    /\ contracts[1].subscriptions[1].id = 1
    /\ contracts[1].subscriptions[1].ending_before = T2
    /\ contracts[1].subscriptions[2].id = 2
    /\ ~contracts[1].prepaid_balance_threshold_configuration.present

(***************************************************************************)
(* The subscription a bridge credit is bound to.                           *)
(***************************************************************************)
\* The one add_recurring_credits entry of the edit of this step.
BridgedEntry == last'.req.add_recurring_credits[1]

\* The edit of this step succeeded on contract 1 with one
\* add_recurring_credits entry.
BridgingStep == EditSucceeds /\ Len(last'.req.add_recurring_credits) = 1

\* The start of the current period of an edit handled at now, and the end
\* of the period bridged for the entry.
BridgedFrom == startOfHour(Max(contracts[1].starting_at, startOfMonth(now)))

BridgedUntil == startOfHour(startOfMonth(startOfHour(BridgedEntry.starting_at)))

\* The positions of the current-period bridge credits the step created
\* (appended by the bridging upsert) or updated (a credit for the period
\* [BridgedFrom, BridgedUntil) that the step changed without archiving it).
CurrentBridgeCredits ==
    LET before == contracts[1].credits
        after == contracts'[1].credits
    IN {i \in 1..Len(after) :
           /\ after[i].items # <<>>
           /\ after[i].items[1].starting_at = BridgedFrom
           /\ after[i].items[1].ending_before = BridgedUntil
           /\ IF i > Len(before) THEN after[i].origin = "bridge"
              ELSE after[i] # before[i] /\ after[i].archived_at = before[i].archived_at}

NextBridgeCredits ==
    LET before == contracts[1].credits
        after == contracts'[1].credits
    IN {i \in 1..Len(after) :
           /\ after[i].items # <<>>
           /\ after[i].items[1].starting_at = BridgedUntil
           /\ IF i > Len(before) THEN after[i].origin = "bridge"
              ELSE after[i] # before[i] /\ after[i].archived_at = before[i].archived_at}

\* After the step the contract holds a subscription with this id that has
\* started and has not ended at now.
ActiveAfterEdit(subId) ==
    \E i \in 1..Len(contracts'[1].subscriptions) :
        LET sub == contracts'[1].subscriptions[i]
        IN /\ sub.id = subId
           /\ sub.starting_at <= now
           /\ (sub.ending_before = NoTime \/ sub.ending_before > now)

NamedInUpdates(subId) ==
    \E u \in 1..Len(last'.req.update_subscriptions) :
        last'.req.update_subscriptions[u].subscription_id = subId

\* C27: every current-period bridge credit an edit creates or updates is
\* bound to a subscription of the contract that is active at now, the
\* edit's own updates and additions of subscriptions counted, and that
\* subscription is not the target of the recurring credit unless the target
\* is named in update_subscriptions.
C27_BridgeBoundToActive ==
    [][BridgingStep =>
         \A i \in CurrentBridgeCredits :
             LET bound == contracts'[1].credits[i].subscription_id
             IN /\ ActiveAfterEdit(bound)
                /\ (bound # BridgedEntry.subscription_id
                       \/ NamedInUpdates(BridgedEntry.subscription_id))]_vars

\* The last edit ended subscription 1 at T2, added subscription 2 of tier a
\* from T2 and a recurring credit for p1 from T2 bound to subscription 2;
\* the contract holds a credit for p1 from the start of the clock's month to
\* T2 bound to subscription 1, which is active.
C27_Witness ==
    /\ last.op = "edit" /\ last.status = 200 /\ edits = 1
    /\ last.req.update_subscriptions = <<[subscription_id |-> 1, ending_before |-> T2]>>
    /\ last.req.add_subscriptions = <<SubData(2, T2, "p1", "MONTHLY", "a")>>
    /\ last.req.add_recurring_credits = <<RecurringData("p1", T2, 2)>>
    /\ \E i \in 1..Len(contracts[1].credits) :
          /\ contracts[1].credits[i].origin = "bridge"
          /\ contracts[1].credits[i].subscription_id = 1
          /\ contracts[1].credits[i].items[1].ending_before = T2
          /\ contracts[1].credits[i].items[1].starting_at < T2
    /\ \E i \in 1..Len(contracts[1].subscriptions) :
          /\ contracts[1].subscriptions[i].id = 1
          /\ contracts[1].subscriptions[i].ending_before = T2
          /\ last.at < T2

(***************************************************************************)
(* The order of the strategies that find the matching subscription.        *)
(***************************************************************************)
\* The subscriptions of the contract after the step that are active at now,
\* in the order of the contract.
ActiveNow ==
    SelectSeq(contracts'[1].subscriptions,
              LAMBDA sub : /\ sub.starting_at <= now
                           /\ (sub.ending_before = NoTime \/ sub.ending_before > now))

\* The id of the first subscription of a sequence, NoId when it is empty.
FirstId(subs) == IF subs = <<>> THEN NoId ELSE subs[1].id

\* The new subscription: the add_subscriptions entries with the target's id.
NewSubEntries ==
    SelectSeq(last'.req.add_subscriptions,
              LAMBDA d : d.temporary_id = BridgedEntry.subscription_id)

NewSubTier == IF NewSubEntries = <<>> THEN NoTier ELSE NewSubEntries[1].tier_id

NewSubProduct == IF NewSubEntries = <<>> THEN NoProduct ELSE NewSubEntries[1].product_id

\* (a) the target itself, if active.
StrategyTarget ==
    FirstId(SelectSeq(ActiveNow, LAMBDA sub : sub.id = BridgedEntry.subscription_id))

\* (b) an active subscription of the new subscription's tier, one with an
\* ending_before first.
StrategyTier ==
    IF NewSubTier = NoTier THEN NoId
    ELSE LET ofTier == SelectSeq(ActiveNow, LAMBDA sub : sub.tier_id = NewSubTier)
             ending == SelectSeq(ofTier, LAMBDA sub : sub.ending_before # NoTime)
         IN IF ending # <<>> THEN FirstId(ending) ELSE FirstId(ofTier)

\* (d) an active subscription named in update_subscriptions.
StrategyEnding == FirstId(SelectSeq(ActiveNow, LAMBDA sub : NamedInUpdates(sub.id)))

\* (e) an active subscription of the new subscription's product.
StrategyProduct ==
    IF NewSubProduct = NoProduct THEN NoId
    ELSE FirstId(SelectSeq(ActiveNow, LAMBDA sub : sub.product_id = NewSubProduct))

\* The first of the strategies (b), (d), (e) that finds a subscription.
FirstAfterTarget ==
    IF StrategyTier # NoId THEN StrategyTier
    ELSE IF StrategyEnding # NoId THEN StrategyEnding
    ELSE StrategyProduct

\* C28 as stated: the current-period bridge credit is bound to the result of
\* the first of (a), (b), (d), (e) that finds a subscription.
C28_Original ==
    [][BridgingStep =>
         \A i \in CurrentBridgeCredits :
             contracts'[1].credits[i].subscription_id =
                 (IF StrategyTarget # NoId THEN StrategyTarget ELSE FirstAfterTarget)]_vars

\* C28 (amended): as stated, except that when (a) finds the target and the
\* new subscription has a tier, the subscription (b) would find is taken in
\* place of the target if it is another one.
C28_StrategiesInOrder ==
    [][BridgingStep =>
         \A i \in CurrentBridgeCredits :
             contracts'[1].credits[i].subscription_id =
                 (IF StrategyTarget # NoId
                  THEN (IF StrategyTier # NoId THEN StrategyTier ELSE StrategyTarget)
                  ELSE FirstAfterTarget)]_vars

\* The last edit added subscription 2 of tier b from T2 and a recurring
\* credit from T2 bound to it, and ended nothing; the contract holds only
\* subscription 1, of tier a and of the same product, besides; the bridge
\* credit up to T2 is bound to subscription 1 (strategy e).
C28_Witness ==
    /\ last.op = "edit" /\ last.status = 200 /\ edits = 1
    /\ last.req.update_subscriptions = <<>>
    /\ last.req.add_subscriptions = <<SubData(2, T2, "p1", "MONTHLY", "b")>>
    /\ last.req.add_recurring_credits = <<RecurringData("p1", T2, 2)>>
    /\ Len(contracts[1].subscriptions) = 2
    /\ contracts[1].subscriptions[1].id = 1
    /\ contracts[1].subscriptions[1].tier_id = "a"
    /\ contracts[1].subscriptions[1].product_id = "p1"
    /\ \E i \in 1..Len(contracts[1].credits) :
          /\ contracts[1].credits[i].origin = "bridge"
          /\ contracts[1].credits[i].subscription_id = 1
          /\ contracts[1].credits[i].items[1].ending_before = T2
          /\ contracts[1].credits[i].items[1].starting_at < T2

\* The tier of the target: that of the first active subscription with the
\* target's id.
TargetTier ==
    LET found == SelectSeq(ActiveNow, LAMBDA sub : sub.id = BridgedEntry.subscription_id)
    IN IF found = <<>> THEN NoTier ELSE found[1].tier_id

\* C29 as stated: when the target is active and has a tier, whichever edit
\* added it, and another active subscription has the same tier, no
\* current-period bridge credit is bound to the target.
C29_Original ==
    [][(/\ BridgingStep
        /\ TargetTier # NoTier
        /\ \E i \in 1..Len(ActiveNow) :
               /\ ActiveNow[i].id # BridgedEntry.subscription_id
               /\ ActiveNow[i].tier_id = TargetTier)
       => \A i \in CurrentBridgeCredits :
              contracts'[1].credits[i].subscription_id # BridgedEntry.subscription_id]_vars

\* The target is active, an add_subscriptions entry of this edit adds it
\* with a tier, and the active subscription preferred for that tier (one
\* with an ending_before first, else the first) is not the target.
TargetAddedWithSharedTier ==
    /\ StrategyTarget # NoId
    /\ NewSubTier # NoTier
    /\ StrategyTier \notin {NoId, BridgedEntry.subscription_id}

\* There is a gap to bridge for the entry, and no add_credits entry of the
\* edit is for its product.
GapToBridge ==
    /\ startOfHour(BridgedEntry.starting_at) > now
    /\ BridgedFrom < BridgedUntil
    /\ \A k \in 1..Len(last'.req.add_credits) :
           last'.req.add_credits[k].product_id # BridgedEntry.product_id

\* C29 (amended): when the target is active and is added by this edit with
\* a tier, and the preferred active subscription of that tier is another
\* one, every current-period bridge credit is bound to that subscription,
\* and when there is a gap to bridge the contract holds such a credit for
\* the product of the recurring credit.
C29_TierBeforeTarget ==
    [][BridgingStep /\ TargetAddedWithSharedTier =>
         /\ \A i \in CurrentBridgeCredits :
                contracts'[1].credits[i].subscription_id = StrategyTier
         /\ GapToBridge =>
                \E i \in 1..Len(contracts'[1].credits) :
                    LET credit == contracts'[1].credits[i]
                    IN /\ credit.archived_at = NoTime
                       /\ credit.product_id = BridgedEntry.product_id
                       /\ credit.items # <<>>
                       /\ credit.items[1].starting_at = BridgedFrom
                       /\ credit.items[1].ending_before = BridgedUntil
                       /\ credit.subscription_id = StrategyTier]_vars

\* The last edit added subscription 2 of tier a, started, and a recurring
\* credit from T2 bound to it; subscription 1 of tier a is active; the
\* bridge credit up to T2 is bound to subscription 1.
C29_Witness ==
    /\ last.op = "edit" /\ last.status = 200 /\ edits = 1
    /\ last.req.add_subscriptions = <<SubData(2, T0, "p1", "MONTHLY", "a")>>
    /\ last.req.add_recurring_credits = <<RecurringData("p1", T2, 2)>>
    /\ \E i \in 1..Len(contracts[1].subscriptions) :
          /\ contracts[1].subscriptions[i].id = 1
          /\ contracts[1].subscriptions[i].tier_id = "a"
          /\ contracts[1].subscriptions[i].starting_at <= last.at
          /\ (contracts[1].subscriptions[i].ending_before = NoTime
                \/ contracts[1].subscriptions[i].ending_before > last.at)
    /\ \E i \in 1..Len(contracts[1].credits) :
          /\ contracts[1].credits[i].origin = "bridge"
          /\ contracts[1].credits[i].subscription_id = 1
          /\ contracts[1].credits[i].items[1].ending_before = T2
          /\ contracts[1].credits[i].items[1].starting_at < T2
    /\ \A i \in 1..Len(contracts[1].credits) :
          contracts[1].credits[i].items[1].starting_at < T2
              => contracts[1].credits[i].subscription_id # 2

(***************************************************************************)
(* The periods of a pair of bridge credits.                                *)
(***************************************************************************)
\* The first instant of the month of t.
FloorToMonth(t) == t - (t % TicksPerMonth)

\* floorToHour(max(contract.starting_at, floorToMonth(now)))
PeriodFrom == HourFloor(Max(contracts[1].starting_at, FloorToMonth(now)))

\* floorToMonth(s) for the start s of the recurring credit of the step.
PeriodUntil == FloorToMonth(BridgedEntry.starting_at)

\* The contract holds, after the step, an unarchived credit for the product
\* whose schedule item covers [s, e).
CoveredAfter(productId, s, e) ==
    \E k \in 1..Len(contracts'[1].credits) :
        LET credit == contracts'[1].credits[k]
        IN /\ credit.archived_at = NoTime
           /\ credit.product_id = productId
           /\ credit.items # <<>>
           /\ credit.items[1].starting_at = s
           /\ credit.items[1].ending_before = e

\* The positions of the credits the bridging of this step appended.
AppendedByBridging ==
    {j \in (Len(contracts[1].credits) + 1)..Len(contracts'[1].credits) :
        contracts'[1].credits[j].origin = "bridge"}

\* C30: every credit that bridging appends covers the current period
\* [PeriodFrom, PeriodUntil), which is not empty, or the next period, the
\* month that starts at PeriodUntil, and the contract then holds the credit
\* of the other period for the same product; when PeriodUntil is not after
\* PeriodFrom, bridging appends no credit and changes none.
C30_BridgePeriodsContiguous ==
    [][BridgingStep =>
         /\ \A j \in AppendedByBridging :
               LET credit == contracts'[1].credits[j]
                   item == credit.items[1]
               IN /\ PeriodFrom < PeriodUntil
                  /\ item.starting_at < item.ending_before
                  /\ \/ /\ item.starting_at = PeriodFrom
                        /\ item.ending_before = PeriodUntil
                        /\ CoveredAfter(credit.product_id, PeriodUntil,
                                        PeriodUntil + TicksPerMonth)
                     \/ /\ item.starting_at = PeriodUntil
                        /\ item.ending_before = PeriodUntil + TicksPerMonth
                        /\ CoveredAfter(credit.product_id, PeriodFrom, PeriodUntil)
         /\ PeriodUntil <= PeriodFrom =>
               /\ AppendedByBridging = {}
               /\ \A i \in 1..Len(contracts[1].credits) :
                      contracts'[1].credits[i] = contracts[1].credits[i]]_vars

\* On a contract that started in the second hour of the first month, an edit
\* handled in that month bridged a recurring credit that starts inside the
\* first hour of T2: the contract holds a bridge credit from the contract's
\* start to T2 and one from T2 to T3.
C30_Witness ==
    /\ last.op = "edit" /\ last.status = 200
    /\ last.at < T1
    /\ contracts[1].starting_at = T0 + TicksPerHour
    /\ last.req.add_recurring_credits = <<RecurringData("p1", T2 + 1, 1)>>
    /\ Len(contracts[1].credits) = 2
    /\ contracts[1].credits[1].origin = "bridge"
    /\ contracts[1].credits[1].items = <<Item(T0 + TicksPerHour, T2, 0)>>
    /\ contracts[1].credits[2].origin = "bridge"
    /\ contracts[1].credits[2].items = <<Item(T2, T3, 0)>>

(***************************************************************************)
(* Bridging without a matching subscription.                               *)
(***************************************************************************)
\* The step handled an edit of contract 1 whose one add_recurring_credits
\* entry starts after now and names a subscription.
FutureBoundEntry ==
    /\ edits' = edits + 1
    /\ last'.op = "edit"
    /\ Len(last'.req.add_recurring_credits) = 1
    /\ startOfHour(BridgedEntry.starting_at) > now
    /\ Truthy(BridgedEntry.subscription_id)

\* None of the lookups finds a subscription for the entry.
NoStrategyMatches == StrategyTarget = NoId /\ FirstAfterTarget = NoId

\* C31: an edit whose future, subscription-bound recurring credit finds no
\* matching subscription succeeds; the contract then holds the requested
\* recurring credit (appended by this edit or already there) and no other
\* new one; every credit it held is unchanged and the only credits appended
\* are those add_credits asks for.
C31_NoMatchIsNoOp ==
    [][(FutureBoundEntry /\ NoStrategyMatches)
       => (/\ last'.status = 200
           /\ \E j \in 1..Len(contracts'[1].recurring_credits) :
                  Requested(contracts'[1].recurring_credits[j], BridgedEntry)
           /\ Len(contracts'[1].recurring_credits) - Len(contracts[1].recurring_credits)
                  \in {0, 1}
           /\ \A j \in 1..Len(contracts[1].recurring_credits) :
                  contracts'[1].recurring_credits[j] = contracts[1].recurring_credits[j]
           /\ \A j \in (Len(contracts[1].recurring_credits) + 1)
                           ..Len(contracts'[1].recurring_credits) :
                  Requested(contracts'[1].recurring_credits[j], BridgedEntry)
           /\ Len(contracts'[1].credits) >= Len(contracts[1].credits)
           /\ \A i \in 1..Len(contracts[1].credits) :
                  contracts'[1].credits[i] = contracts[1].credits[i]
           /\ \A i \in (Len(contracts[1].credits) + 1)..Len(contracts'[1].credits) :
                  contracts'[1].credits[i].origin \in {"add", "next"})]_vars

\* The last edit asked for a recurring credit for p1 from T2 bound to
\* subscription 2, which the contract does not hold and the edit does not
\* add, and ended nothing: the recurring credit is recorded and the contract
\* has no credit.
C31_Witness ==
    /\ last.op = "edit" /\ last.status = 200 /\ edits = 1
    /\ last.req.update_subscriptions = <<>>
    /\ last.req.add_subscriptions = <<>>
    /\ last.req.add_recurring_credits = <<RecurringData("p1", T2, 2)>>
    /\ last.req.add_credits = <<>>
    /\ \A i \in 1..Len(contracts[1].subscriptions) : contracts[1].subscriptions[i].id # 2
    /\ Len(contracts[1].recurring_credits) = 1
    /\ contracts[1].recurring_credits[1].subscription_id = 2
    /\ contracts[1].credits = <<>>

(***************************************************************************)
(* The products bridging credits.                                          *)
(***************************************************************************)
\* The id of the subscription the strategies find, NoId when none does.
MatchedSubId ==
    IF StrategyTarget # NoId
    THEN (IF StrategyTier # NoId THEN StrategyTier ELSE StrategyTarget)
    ELSE FirstAfterTarget

\* Its tier.
MatchedSubTier ==
    LET subs == SelectSeq(contracts'[1].subscriptions, LAMBDA sub : sub.id = MatchedSubId)
    IN IF subs = <<>> THEN NoTier ELSE subs[1].tier_id

\* The products the claim lets bridging credit: the triggering product, the
\* products of add_credits entries with a schedule item, the products of
\* the unarchived credits on file bound to the matching subscription or
\* carrying its tier_id.
ProductsToBridge ==
    {BridgedEntry.product_id}
    \cup {last'.req.add_credits[i].product_id : i \in
             {j \in 1..Len(last'.req.add_credits) :
                 last'.req.add_credits[j].has_items /\ last'.req.add_credits[j].items # <<>>}}
    \cup {contracts[1].credits[i].product_id : i \in
             {j \in 1..Len(contracts[1].credits) :
                 /\ contracts[1].credits[j].archived_at = NoTime
                 /\ \/ contracts[1].credits[j].subscription_id = MatchedSubId
                    \/ (MatchedSubTier # NoTier
                           /\ contracts[1].credits[j].tier_id = MatchedSubTier)}}

\* The products of the credits bridging appended and of the recurring
\* credits the step appended.
ProductsBridged ==
    {contracts'[1].credits[i].product_id : i \in
        {j \in (Len(contracts[1].credits) + 1)..Len(contracts'[1].credits) :
            contracts'[1].credits[j].origin = "bridge"}}
    \cup {contracts'[1].recurring_credits[i].product_id : i \in
             (Len(contracts[1].recurring_credits) + 1)..Len(contracts'[1].recurring_credits)}

\* C32 as stated: bridging appends credits and recurring credits only for
\* the triggering product, the products of add_credits entries with a
\* schedule item and the products of unarchived credits bound to the
\* matching subscription or carrying its tier_id.
C32_Original == [][BridgingStep => ProductsBridged \subseteq ProductsToBridge]_vars

(***************************************************************************)
(* The credits a bridging upsert may change.                               *)
(***************************************************************************)
\* The end of the period that follows the bridged one.
BridgedNextUntil == startOfHour(startOfMonth(addMonths(BridgedUntil, 1)))

\* The tiers a side of the bridging can carry: that of the matching
\* subscription, that of the target subscription on file, that of the new
\* subscription.
BridgedTiers ==
    {MatchedSubTier, NewSubTier}
    \cup {contracts'[1].subscriptions[i].tier_id : i \in
             {j \in 1..Len(contracts'[1].subscriptions) :
                 contracts'[1].subscriptions[j].id = BridgedEntry.subscription_id}}

\* The credit is one an upsert of this step may reuse: unarchived, for the
\* bridged period and bound to the matching subscription or of a tier of the
\* current side, or for the period after it and bound to the target or of a
\* tier of the next side.  (A credit without tier counts as carrying the
\* tier of a side that has none.)
Reusable(k) ==
    /\ k.archived_at = NoTime
    /\ k.items # <<>>
    /\ \/ /\ k.items[1].starting_at = BridgedFrom
          /\ k.items[1].ending_before = BridgedUntil
          /\ (k.subscription_id = MatchedSubId \/ k.tier_id \in BridgedTiers \cup {NoTier})
       \/ /\ k.items[1].starting_at = BridgedUntil
          /\ k.items[1].ending_before = BridgedNextUntil
          /\ (k.subscription_id = BridgedEntry.subscription_id
                 \/ k.tier_id \in BridgedTiers \cup {NoTier})

\* C33 as stated: a bridging edit changes a credit on file only if it is
\* reusable, and then keeps its id, schedule and amount; every other credit
\* on file is unchanged.
C33_Original ==
    [][BridgingStep =>
         \A i \in 1..Len(contracts[1].credits) :
             \/ contracts'[1].credits[i] = contracts[1].credits[i]
             \/ /\ Reusable(contracts[1].credits[i])
                /\ contracts'[1].credits[i].id = contracts[1].credits[i].id
                /\ contracts'[1].credits[i].items = contracts[1].credits[i].items]_vars

(***************************************************************************)
(* The automatic next-period credit.                                       *)
(***************************************************************************)
\* The tier of the first subscription of the contract with this id after
\* the step, NoTier when there is none.
TierOfSubscription(subId) ==
    LET subs == SelectSeq(contracts'[1].subscriptions, LAMBDA sub : sub.id = subId)
    IN IF subs = <<>> THEN NoTier ELSE subs[1].tier_id

\* The recurring credits of the contract after the step that make the
\* next-period credit of a one-time credit: same product, start in the hour
\* of the credit's ending_before, compatible binding.
RecurringFor(credit) ==
    {i \in 1..Len(contracts'[1].recurring_credits) :
        LET rc == contracts'[1].recurring_credits[i]
        IN /\ rc.product_id = credit.product_id
           /\ startOfHour(rc.starting_at) = startOfHour(credit.items[1].ending_before)
           /\ (\/ ~Truthy(credit.subscription_id)
               \/ ~Truthy(rc.subscription_id)
               \/ rc.subscription_id = credit.subscription_id)}

\* The next-period credit carries the amount of the one-time credit, the
\* binding of one of its recurring credits if that one is bound, and the
\* tier of the subscription so named if it has one.
CarriesOver(credit, next) ==
    /\ Len(next.items) = 1
    /\ next.items[1].amount = credit.items[1].amount
    /\ \E i \in RecurringFor(credit) :
          LET rc == contracts'[1].recurring_credits[i]
          IN Truthy(rc.subscription_id)
                => /\ next.subscription_id = rc.subscription_id
                   /\ (TierOfSubscription(rc.subscription_id) # NoTier
                          => next.tier_id = TierOfSubscription(rc.subscription_id))

\* The positions of the next-period credits the step appended; each follows
\* its one-time credit.
NextPeriodCreditsAdded ==
    {j \in (Len(contracts[1].credits) + 2)..Len(contracts'[1].credits) :
        contracts'[1].credits[j].origin = "next"}

\* C34 as stated: a next-period credit starts at the ending_before of its
\* one-time credit, ends one month later, and carries the amount, the
\* binding and the tier over.
C34_Original ==
    [][EditSucceeds =>
         \A j \in NextPeriodCreditsAdded :
             LET credit == contracts'[1].credits[j - 1]
                 next == contracts'[1].credits[j]
             IN /\ CarriesOver(credit, next)
                /\ next.items[1].starting_at = credit.items[1].ending_before
                /\ next.items[1].ending_before =
                       addMonths(credit.items[1].ending_before, 1)]_vars

\* C35 as stated: a next-period credit is appended only if a recurring
\* credit of the contract has the product of the one-time credit, starts at
\* its ending_before and has its subscription binding.
C35_Original ==
    [][EditSucceeds =>
         \A j \in NextPeriodCreditsAdded :
             LET credit == contracts'[1].credits[j - 1]
             IN \E i \in 1..Len(contracts'[1].recurring_credits) :
                    LET rc == contracts'[1].recurring_credits[i]
                    IN /\ rc.product_id = credit.product_id
                       /\ rc.starting_at = credit.items[1].ending_before
                       /\ rc.subscription_id = credit.subscription_id]_vars

\* C35 (amended): a next-period credit is appended only after a one-time
\* credit made from a schedule item, and only if a recurring credit of the
\* contract has its product, starts in the hour of its ending_before and
\* has a compatible binding: the credit names no subscription, or the
\* recurring credit names none, or both name the same.
C35_NextOnlyWithRecurring ==
    [][EditSucceeds =>
         \A j \in NextPeriodCreditsAdded :
             LET credit == contracts'[1].credits[j - 1]
             IN /\ credit.origin = "add"
                /\ credit.items # <<>>
                /\ RecurringFor(credit) # {}]_vars

\* The contract holds a one-time credit without subscription that ends at
\* T2, followed by its next-period credit bound to subscription 1: the
\* recurring credit that starts at T2 is bound, the credit is not.
C35_Witness ==
    /\ last.op = "edit" /\ last.status = 200
    /\ \E j \in 2..Len(contracts[1].credits) :
          /\ contracts[1].credits[j].origin = "next"
          /\ contracts[1].credits[j].subscription_id = 1
          /\ contracts[1].credits[j - 1].origin = "add"
          /\ contracts[1].credits[j - 1].subscription_id = NoId
          /\ contracts[1].credits[j - 1].items[1].ending_before = T2
    /\ \A i \in 1..Len(contracts[1].recurring_credits) :
          contracts[1].recurring_credits[i].subscription_id = 1

(***************************************************************************)
(* One schedule item per credit.                                           *)
(***************************************************************************)
\* C36 as stated: every credit of the contract has exactly one schedule
\* item.
C36_Original ==
    \A i \in 1..Len(contracts) : \A j \in 1..Len(contracts[i].credits) :
        Len(contracts[i].credits[j].items) = 1

\* The schedules of the credits add_credits makes, in order: one per
\* schedule item of an entry that has schedule_items, and the empty schedule
\* for an entry that has none.
SchedulesAsked(add_credits) ==
    Fold(LAMBDA acc, d : acc \o (IF d.has_items
                                 THEN [i \in 1..Len(d.items) |-> <<d.items[i]>>]
                                 ELSE << <<>> >>),
         <<>>, add_credits)

\* The schedules of the credits the step appended from add_credits entries.
SchedulesAdded ==
    LET new == SubSeq(contracts'[1].credits, Len(contracts[1].credits) + 1,
                      Len(contracts'[1].credits))
        adds == SelectSeq(new, LAMBDA k : k.origin = "add")
    IN [i \in 1..Len(adds) |-> adds[i].items]

\* C36 (amended): no credit has more than one schedule item, and the only
\* credits without one are those made from add_credits entries without
\* schedule_items; an edit appends one credit per schedule item of its
\* add_credits entries, each with that item, and one credit without item
\* per entry without schedule_items; bridge and next-period credits have
\* one item.
C36_AtMostOneItem ==
    [][/\ \A j \in 1..Len(contracts'[1].credits) :
              LET k == contracts'[1].credits[j]
              IN /\ Len(k.items) <= 1
                 /\ (k.origin \in {"bridge", "next"} => Len(k.items) = 1)
       /\ EditSucceeds => SchedulesAdded = SchedulesAsked(last'.req.add_credits)]_vars

\* The contract holds a credit without schedule item (made from an entry
\* without schedule_items), two credits made from one entry of two items,
\* and a bridge credit.
C36_Witness ==
    /\ \E j \in 1..Len(contracts[1].credits) :
          contracts[1].credits[j].items = <<>> /\ contracts[1].credits[j].origin = "add"
    /\ \E j \in 2..Len(contracts[1].credits) :
          /\ contracts[1].credits[j].origin = "add"
          /\ contracts[1].credits[j].items = <<Item(T0, T1, 5)>>
          /\ contracts[1].credits[j - 1].items = <<Item(T0, T2, 5)>>
    /\ \E j \in 1..Len(contracts[1].credits) :
          contracts[1].credits[j].origin = "bridge" /\ Len(contracts[1].credits[j].items) = 1

(***************************************************************************)
(* Endings and archival are set as asked and never cleared.                *)
(***************************************************************************)
\* The value the one entry of an update list supplies for the entity at
\* position i of the collection: the entry names the id of the entity, no
\* earlier entity has that id, and the entry carries a value.
Supplied(updates, collection, i, NameOf(_), ValueOf(_)) ==
    /\ updates # <<>>
    /\ ValueOf(updates[1]) # NoTime
    /\ collection[i].id = NameOf(updates[1])
    /\ \A j \in 1..(i - 1) : collection[j].id # NameOf(updates[1])

\* The step handled an edit of contract 1 with at most one entry in each of
\* the three lists, and answered 200.
UpdatesOne ==
    /\ EditSucceeds
    /\ Len(last'.req.update_subscriptions) <= 1
    /\ Len(last'.req.update_recurring_credits) <= 1
    /\ Len(last'.req.archive_credits) <= 1

\* Every subscription, recurring credit and credit on file has after the
\* step the ending_before (archived_at) it had, except the one an entry
\* names, which has the supplied ending_before (is archived at now).
EndingsAsAsked ==
    LET before == contracts[1]
        after == contracts'[1]
        req == last'.req
    IN /\ \A i \in 1..Len(before.subscriptions) :
              after.subscriptions[i].ending_before =
                  (IF Supplied(req.update_subscriptions, before.subscriptions, i,
                               LAMBDA u : u.subscription_id, LAMBDA u : u.ending_before)
                   THEN req.update_subscriptions[1].ending_before
                   ELSE before.subscriptions[i].ending_before)
       /\ \A i \in 1..Len(before.recurring_credits) :
              after.recurring_credits[i].ending_before =
                  (IF Supplied(req.update_recurring_credits, before.recurring_credits, i,
                               LAMBDA u : u.recurring_credit_id, LAMBDA u : u.ending_before)
                   THEN req.update_recurring_credits[1].ending_before
                   ELSE before.recurring_credits[i].ending_before)
       /\ \A i \in 1..Len(before.credits) :
              after.credits[i].archived_at =
                  (IF Supplied(req.archive_credits, before.credits, i,
                               LAMBDA a : a.id, LAMBDA a : now)
                   THEN now
                   ELSE before.credits[i].archived_at)

\* No step takes an entity off file or clears its ending_before or
\* archived_at.
NeverCleared ==
    LET before == contracts[1]
        after == contracts'[1]
    IN /\ Len(after.subscriptions) >= Len(before.subscriptions)
       /\ Len(after.recurring_credits) >= Len(before.recurring_credits)
       /\ Len(after.credits) >= Len(before.credits)
       /\ \A i \in 1..Len(before.subscriptions) :
              /\ after.subscriptions[i].id = before.subscriptions[i].id
              /\ (before.subscriptions[i].ending_before # NoTime
                     => after.subscriptions[i].ending_before # NoTime)
       /\ \A i \in 1..Len(before.recurring_credits) :
              /\ after.recurring_credits[i].id = before.recurring_credits[i].id
              /\ (before.recurring_credits[i].ending_before # NoTime
                     => after.recurring_credits[i].ending_before # NoTime)
       /\ \A i \in 1..Len(before.credits) :
              /\ after.credits[i].id = before.credits[i].id
              /\ (before.credits[i].archived_at # NoTime
                     => after.credits[i].archived_at # NoTime)

\* C37: an edit sets ending_before only on the subscription and on the
\* recurring credit its updates name (the first with the id) and only when
\* the update carries a value, and stamps archived_at = now only on the
\* credit archive_credits names; unknown ids change nothing; no step clears
\* an ending_before or an archived_at.
C37_EndingsSetNeverCleared ==
    [][/\ NeverCleared
       /\ UpdatesOne => EndingsAsAsked]_vars

\* The last edit named subscription 1 and the recurring credit without an
\* ending_before and archived an unknown credit; subscription 1 and the
\* recurring credit, ended by an earlier edit, are still ended, and the
\* credit archived by it is still archived at the earlier instant.
C37_Witness ==
    /\ last.op = "edit" /\ last.status = 200 /\ edits = 3
    /\ last.req.update_subscriptions = <<[subscription_id |-> 1, ending_before |-> NoTime]>>
    /\ Len(last.req.update_recurring_credits) = 1
    /\ Len(contracts[1].recurring_credits) = 1
    /\ last.req.update_recurring_credits[1].recurring_credit_id =
           contracts[1].recurring_credits[1].id
    /\ last.req.update_recurring_credits[1].ending_before = NoTime
    /\ last.req.archive_credits = <<[id |-> UnknownId]>>
    /\ contracts[1].subscriptions[1].ending_before = T2
    /\ contracts[1].recurring_credits[1].ending_before = T3
    /\ Len(contracts[1].credits) = 1
    /\ contracts[1].credits[1].archived_at = T0 + 1
    /\ last.at > T0 + 1

(***************************************************************************)
(* Calendar month arithmetic.                                              *)
(***************************************************************************)
\* C38 as stated: addMonths of the first instant of a month and n is the
\* first instant of the month n months away, and adding -n months to it
\* gives the instant back.
C38_Original ==
    last.op = "addMonths"
        => /\ last.result = MonthStart(MonthOf(last.date) + last.months)
           /\ last.back = last.date

(***************************************************************************)
(* Subscription ids.                                                       *)
(***************************************************************************)
\* C39 as stated: no two subscriptions of a contract share an id.
C39_Original ==
    \A c \in 1..Len(contracts) :
        \A i, j \in 1..Len(contracts[c].subscriptions) :
            i # j => contracts[c].subscriptions[i].id # contracts[c].subscriptions[j].id

\* The payment-gate events of the step's edit that report a failed payment
\* of the edited contract.
FailedGateEvents ==
    {i \in EventsOfType(last'.events, "payment_gate.payment_status") :
        /\ last'.events[i].contract_id = last'.req.contract_id
        /\ last'.events[i].payment_status = "failed"}

\* The configuration the step's edit leaves on the edited contract is
\* enabled, has a positive threshold_amount and names a commit product.
ResultingConfigAlerts ==
    LET config == contracts'[last'.req.contract_id].prepaid_balance_threshold_configuration
    IN /\ config.present
       /\ config.is_enabled
       /\ config.threshold_amount # NoAmount
       /\ config.threshold_amount > 0
       /\ config.has_commit
       /\ config.commit_product # NoProduct

\* The effects of an edit end with its events: the place of event i among
\* the effects.
EffectOfEvent(i) == Len(last'.effects) - Len(last'.events) + i

====
